---- MODULE Spec2Model ----
(***************************************************************************)
(* The dual-role supervisor of `mneme auto` (src/unnamed/part_011, lines   *)
(* 1064-3100: the current auto.mjs) with its collaborators:                *)
(*   - the work-item tracker (`bd`, reached through run());                *)
(*   - the interrupt channel (createInputQueue);                           *)
(*   - the remote session and its event stream (createClient,              *)
(*     createEventDisplay);                                                *)
(*   - the turn executor (executeTurnHeadless / executeTurnDaemon);        *)
(*   - the supervisor loop (supervisorLoopHeadless and its sub-flows).     *)
(*                                                                         *)
(* The specifications share the definitions below:                         *)
(*   SpecPick   the task selector applied to tracker snapshots;            *)
(*   SpecTurn   one turn of the turn executor, with a wall clock;          *)
(*   SpecQueue  the interrupt queue during one headless turn;              *)
(*   Spec       the headless supervisor loop (clock abstracted);           *)
(*   SpecDaemon the daemon supervisor loop with the user in the TUI, and   *)
(*              SpecDaemonLive, the same with the scheduling's fairness;   *)
(*   SpecSetup  the headless run over every outcome of model validation;   *)
(*   SpecSilence one turn that starts after a long silence;                *)
(*   SpecParent the daemon process with the process that started it;       *)
(*   SpecParse  the event-stream parser (src/unnamed/part_012) over        *)
(*              short streams of frames;                                   *)
(*   SpecStream the event subscription during one turn;                    *)
(*   SpecModel  the headless supervisor under the values of --planner;     *)
(*   SpecExit   runHeadlessMode from the server's start to the finally     *)
(*              block;                                                     *)
(*   SpecStop   the stream client with stop() called at any moment.        *)
(***************************************************************************)
EXTENDS Integers, Sequences, FiniteSets, TLC

(***************************************************************************)
(* Bounds of the model.                                                    *)
(***************************************************************************)
\* number of work items in the tracker; a lower id is a higher priority
NumBeads == 2
\* number of lines the user types in one run
MaxTyped == 2
\* number of prompts the supervisor submits in one run
MaxTurns == 3
\* number of events the stream holds undelivered
MaxStream == 1
\* largest --max-cycles value tried
MaxCycles == 2

Beads == 1..NumBeads

\* a word of tracker text that is not the id of any work item
JunkWord == NumBeads + 1

(***************************************************************************)
(* Work-item tracker (external; reached through run(), which returns null  *)
(* when the command fails).                                                *)
(*   "ready"       open and unblocked                                      *)
(*   "blocked"     open, waiting on a dependency                           *)
(*   "in_progress" claimed                                                 *)
(*   "closed"                                                              *)
(***************************************************************************)
BeadStatus == {"ready", "blocked", "in_progress", "closed"}

\* what a run() of a tracker query gives: valid JSON, text that is not JSON,
\* or null (the command failed or timed out)
RunOutcome == {"json", "text", "fail"}

\* the two layouts of the tracker's free-text listing that are enumerated:
\* "idfirst":  "<id> <title>"
\* "listing":  a header line "Ready work:" and lines "1. [P2] <id>: <title>"
TextLayout == {"idfirst", "listing"}

RECURSIVE ByPriority(_)
ByPriority(S) ==
    IF S = {} THEN <<>>
    ELSE LET b == CHOOSE x \in S : \A y \in S : x <= y
         IN  <<b>> \o ByPriority(S \ {b})

WithStatus(bd, S) == ByPriority({b \in Beads : bd[b] \in S})

\* a bead object as the code sees it: id and raw are absent (<<>>) or present
BeadObj(i, r) == [id |-> i, raw |-> r]

JsonBeads(ids) == [k \in 1..Len(ids) |-> BeadObj(<<ids[k]>>, <<>>)]

Word(n) == [k |-> "word", v |-> n]
Space == [k |-> "space", v |-> 0]
Punct == [k |-> "punct", v |-> 0]

\* one line of `bd ready` for work item b
ReadyLine(b, layout) ==
    IF layout = "idfirst"
    THEN <<Word(b), Space, Word(JunkWord)>>
    ELSE <<Word(JunkWord), Punct, Space, Punct, Word(JunkWord), Punct, Space,
           Word(b), Punct, Space, Word(JunkWord)>>

\* the free-text output of `bd ready`
ReadyText(bd, layout) ==
    LET ids == WithStatus(bd, {"ready"})
        items == [k \in 1..Len(ids) |-> ReadyLine(ids[k], layout)]
    IN  [noReady |-> ids = <<>>,
         lines |-> IF layout = "listing" /\ ids # <<>>
                   THEN <<<<Word(JunkWord), Space, Word(JunkWord), Punct>>>> \o items
                   ELSE items]

\* line.match(/([\w-]+)\s/): the first word that a whitespace follows
MatchWordSpace(line) ==
    LET hits == {i \in 1..(Len(line) - 1) :
                    line[i].k = "word" /\ line[i + 1].k = "space"}
    IN  IF hits = {} THEN <<>>
        ELSE <<line[CHOOSE i \in hits : \A j \in hits : i <= j].v>>

\* bead.raw.match(/([\w-]+)/): the first word
MatchWord(line) ==
    LET hits == {i \in 1..Len(line) : line[i].k = "word"}
    IN  IF hits = {} THEN <<>>
        ELSE <<line[CHOOSE i \in hits : \A j \in hits : i <= j].v>>

RECURSIVE ParseLines(_)
ParseLines(lines) ==
    IF lines = <<>> THEN <<>>
    ELSE LET m == MatchWordSpace(Head(lines))
         IN  (IF m = <<>> THEN <<>> ELSE <<BeadObj(m, <<Head(lines)>>)>>)
             \o ParseLines(Tail(lines))

parseBeadText(text) ==
    IF text.noReady THEN <<>> ELSE ParseLines(text.lines)

\* o: the outcome of run("bd ready --json"); o2: of the fallback run("bd ready")
getReadyBeads(bd, o, o2, layout) ==
    IF o = "fail" THEN <<>>
    ELSE IF o = "json" THEN JsonBeads(WithStatus(bd, {"ready"}))
    ELSE IF o2 = "fail" THEN <<>>
    ELSE parseBeadText(ReadyText(bd, layout))

getInProgressBeads(bd, o) ==
    IF o = "json" THEN JsonBeads(WithStatus(bd, {"in_progress"})) ELSE <<>>

getOpenBeads(bd, o) ==
    IF o = "json" THEN JsonBeads(WithStatus(bd, {"ready", "blocked"})) ELSE <<>>

extractBeadId(bead) ==
    IF bead.id # <<>> THEN bead.id
    ELSE IF bead.raw # <<>> THEN MatchWord(bead.raw[1])
    ELSE <<>>

bdUpdateNothing(bd, id, o) == bd

\* run(`bd update <id> --status=in_progress`)
bdUpdateInProgress(bd, id, o) ==
    IF o # "fail" /\ id \in Beads THEN [bd EXCEPT ![id] = "in_progress"] ELSE bd

(***************************************************************************)
(* Prompt composer.  A prompt is its kind, the work item it names (ref)    *)
(* and the user feedback it embeds (fb).                                   *)
(***************************************************************************)
Prompt(kind, ref, fb) == [kind |-> kind, ref |-> ref, fb |-> fb]
NoPrompt == Prompt("null", <<>>, <<>>)

buildPlannerBeadPrompt(beadId) == Prompt("bead", <<beadId>>, <<>>)
buildPlannerGoalPrompt == Prompt("goal", <<>>, <<>>)
buildPlannerReviewPrompt(userFeedback) == Prompt("review", <<>>, userFeedback)
buildPlannerDiscoveryPrompt == Prompt("discovery", <<>>, <<>>)
buildPlannerFinalizeGoalPrompt == Prompt("finalize", <<>>, <<>>)
buildExecutorPrompt == Prompt("executor", <<>>, <<>>)
discussPrompt(userText) == Prompt("discuss", <<>>, <<userText>>)

\* which prompt texts contain the literal TASK_DONE
PromptHasSentinel(p) == p.kind \in {"bead", "goal", "review", "finalize"}

(***************************************************************************)
(* Task selector.  q gives the outcome of each run() it makes.             *)
(***************************************************************************)
PickOutcomes ==
    [ip : RunOutcome, rd : RunOutcome, rd2 : RunOutcome,
     up : {"json", "fail"}, layout : TextLayout]

AllOk == [ip |-> "json", rd |-> "json", rd2 |-> "json", up |-> "json",
          layout |-> "idfirst"]

PickResult(prompt, claim, bd) == [prompt |-> prompt, claim |-> claim, beads |-> bd]

pickBeadForPlannerSkipResume(bd, q) ==
    LET ready == getReadyBeads(bd, q.rd, q.rd2, q.layout)
        rid == IF ready = <<>> THEN <<>> ELSE extractBeadId(ready[1])
    IN  IF rid = <<>> THEN PickResult(NoPrompt, <<>>, bd)
        ELSE PickResult(buildPlannerBeadPrompt(rid[1]), rid,
                        bdUpdateInProgress(bd, rid[1], q.up))

pickBeadForPlanner(bd, q) ==
    LET inProgress == getInProgressBeads(bd, q.ip)
        iid == IF inProgress = <<>> THEN <<>> ELSE extractBeadId(inProgress[1])
        ready == getReadyBeads(bd, q.rd, q.rd2, q.layout)
        rid == IF ready = <<>> THEN <<>> ELSE extractBeadId(ready[1])
    IN  IF iid # <<>>
        THEN PickResult(buildPlannerBeadPrompt(iid[1]), <<>>, bd)
        ELSE IF rid = <<>> THEN PickResult(NoPrompt, <<>>, bd)
        ELSE PickResult(buildPlannerBeadPrompt(rid[1]), rid,
                        bdUpdateInProgress(bd, rid[1], q.up))


(***************************************************************************)
(* State.                                                                  *)
(***************************************************************************)
VARIABLES
    beads,          \* tracker: status of every work item
    lastPick,       \* SpecPick: the last two selector calls
    queue,          \* createInputQueue: queue
    closed,         \* createInputQueue: closed
    typed,          \* number of lines the user has typed
    inflight,       \* remote session: the prompts it has not finished
    lastMsg,        \* remote session: the last message of the history
    curOut,         \* remote session: its answer to the current turn's prompt
    aborts,         \* abort requests under way
    stream,         \* undelivered session.status events of the stream
    running,        \* createEventDisplay: running
    turnResolve,    \* createEventDisplay: turnResolve (0: null, else the turn)
    cur,            \* the activation of executeTurnHeadless / executeTurnDaemon
    pc,             \* supervisorLoopHeadless: where it is
    cycle,          \* supervisorLoopHeadless: cycle
    opts,           \* parseArgs: goal, maxCycles, planner = executor; TTY; mode
    hasBeads,       \* askStartModeHeadless: hasBeads
    nsent,          \* number of prompts submitted with promptAsync
    quitTaken,      \* a quit item has been taken out of the queue
    item,           \* what the last initial planner prompt was about
    doneItem,       \* what the planner declared done, until the next planner turn
    now,            \* SpecTurn: wall clock, ms
    lastOutputTime, \* createEventDisplay: lastOutputTime
    turnStartTime,  \* executeTurn: turnStartTime
    nextBeat,       \* SpecTurn: when the 15 s interval fires next
    lastEvent,      \* SpecTurn: when the stream last delivered an event
    lastTurn,       \* the call of executeTurn that returned last
    ncycles,        \* number of times cycle++ has run
    waited,         \* the loop comes back from waitForInput()
    userInteracting,\* supervisorLoopDaemon: userInteracting
    onUserMessage,  \* createDaemonEventMonitor: onUserMessage (which handler)
    userEvents,     \* undelivered message.updated events of user messages
    knownPromptTexts, \* createDaemonEventMonitor: knownPromptTexts
    parentAlive,    \* runDaemonTuiMode: the foreground process is alive
    parentPid,      \* runDaemonProcess: parentPid (whose pid it holds)
    serverCtx,      \* runHeadlessMode: serverCtx
    procs,          \* the server processes: this run's child, another's
    validation,     \* validateModels: probes sent, a model was rejected
    sub,            \* start(): the event subscription (open, backoff, ended)
    hasReceivedAny, \* createEventDisplay: hasReceivedAny
    lines,          \* subscribeEvents: the stream's lines, how many were read
    currentEvent,   \* subscribeEvents: currentEvent
    yielded         \* subscribeEvents: the events yielded so far

trackerVars == <<beads, lastPick>>
inputVars == <<queue, closed, typed>>
remoteVars == <<inflight, lastMsg, curOut, aborts, stream>>
displayVars == <<running, turnResolve>>
loopVars == <<pc, cycle, opts, hasBeads, nsent, quitTaken, item, doneItem>>
clockVars == <<now, lastOutputTime, turnStartTime, nextBeat, lastEvent>>
histVars == <<lastTurn, ncycles, waited>>
daemonVars == <<userInteracting, onUserMessage, userEvents, knownPromptTexts>>
serverVars == <<serverCtx, procs>>
procVars == <<parentAlive, parentPid, serverVars>>
streamVars == <<sub, hasReceivedAny>>
parseVars == <<lines, currentEvent, yielded>>
auxVars == <<procVars, validation, streamVars, parseVars>>
vars == <<trackerVars, inputVars, remoteVars, displayVars, loopVars, clockVars,
          histVars, daemonVars, auxVars, cur>>

(***************************************************************************)
(* Interrupt channel (createInputQueue).                                   *)
(***************************************************************************)
\* the lines the user types
Lines == {"/quit", "/abort", "/skip", "/go", "1", "2", "fix"}

Item(type, text) == [type |-> type, text |-> text]

\* rl.on("line")
lineItem(line) ==
    IF line \in {"/quit", "/exit", "/stop"} THEN Item("quit", "")
    ELSE IF line = "/status" THEN Item("status", "")
    ELSE IF line = "/skip" THEN Item("skip", "")
    ELSE IF line = "/abort" THEN Item("abort", "")
    ELSE Item("message", line)

hasMessages(q) == Len(q) > 0

\* queue.unshift(item)
pushBack(q, it) == <<it>> \o q

HasQuit(items) == \E i \in 1..Len(items) : items[i].type = "quit"

\* From the settling of a turn's promise up to the next await (the return
\* of executeTurnHeadless, the top of the loop and its execSync tracker
\* calls) the supervisor runs in one go: the reader, the stream and the
\* requests in flight are served only while it awaits.
AtAwait == ~(pc = "loop" \/ (pc = "turn" /\ cur.tpc = "returned"))

\* The texts "1" and "2" are read as answers by askStartModeHeadless only and
\* "/go" by goalDiscussionHeadless only; anywhere else they are messages like
\* any other, so the user is taken to type them where they are read.
InAsk == pc \in {"setup", "ask"}
InDiscussion ==
    \/ pc = "discussWait"
    \/ pc = "turn" /\ cur.site \in {"discovery", "discuss"}

Typable(line) ==
    /\ line \in {"1", "2"} => InAsk
    /\ line = "/go" => InDiscussion

\* the user types a line (only a TTY has a reader attached; not after close)
UserLine(line) ==
    /\ AtAwait
    /\ opts.tty /\ ~closed
    /\ typed < MaxTyped
    /\ pc \notin {"done", "crashed"}
    /\ Typable(line)
    /\ typed' = typed + 1
    /\ queue' = Append(queue, lineItem(line))
    /\ UNCHANGED <<closed, trackerVars, remoteVars, displayVars, loopVars,
                   clockVars, cur>>
    /\ UNCHANGED <<histVars, daemonVars>>
    /\ UNCHANGED auxVars

(***************************************************************************)
(* Remote session (createClient: session.promptAsync, session.abort,       *)
(* session.messages, events.subscribe).                                    *)
(***************************************************************************)
Msg(role, sentinel, error) ==
    [role |-> role, sentinel |-> sentinel, error |-> error]
NoMsg == Msg("none", FALSE, FALSE)

\* extractMessageText(lastMsg).includes("TASK_DONE")
MsgHasSentinel(m) == m.role # "none" /\ m.sentinel

Result(status, aborted, quit) ==
    [status |-> status, aborted |-> aborted, quit |-> quit]
NoResult == Result("pending", FALSE, FALSE)

Turn(id, site, prompt, tpc) ==
    [id |-> id, site |-> site, prompt |-> prompt, tpc |-> tpc,
     resolved |-> FALSE, warned |-> FALSE, abortCalls |-> 0,
     result |-> NoResult]
NoTurn == Turn(0, "none", NoPrompt, "none")

RoleOf(prompt) == IF prompt.kind = "executor" THEN "executor" ELSE "planner"

\* the session is done with its oldest unfinished prompt: the assistant
\* message m ends the history; a session.status idle event follows once
\* nothing is left to process
RemoteEnds(m, out) ==
    /\ AtAwait
    /\ inflight # <<>>
    /\ stream < MaxStream
    /\ inflight' = Tail(inflight)
    /\ lastMsg' = m
    /\ curOut' = IF Head(inflight).id = cur.id THEN out ELSE curOut
    /\ stream' = IF Tail(inflight) = <<>> THEN stream + 1 ELSE stream
    /\ UNCHANGED <<aborts, trackerVars, inputVars, displayVars, loopVars,
                   clockVars, cur>>
    /\ UNCHANGED <<histVars, daemonVars>>
    /\ UNCHANGED auxVars

\* the model finishes its answer (said: the answer contains TASK_DONE)
RemoteFinish(said) ==
    /\ inflight # <<>>
    /\ said => Head(inflight).role = "planner"
    /\ RemoteEnds(Msg("assistant", said, FALSE),
                  IF said THEN "sentinel" ELSE "plain")

\* the provider rejects the prompt: the answer is an error message
RemoteFail ==
    /\ inflight # <<>>
    /\ RemoteEnds(Msg("assistant", FALSE, TRUE), "error")

\* an abort request reaches the session: whatever it is processing is dropped
RemoteAbort ==
    /\ AtAwait
    /\ aborts > 0
    /\ stream < MaxStream
    /\ aborts' = aborts - 1
    /\ inflight' = <<>>
    /\ stream' = IF inflight # <<>> THEN stream + 1 ELSE stream
    /\ UNCHANGED <<lastMsg, curOut, trackerVars, inputVars, displayVars,
                   loopVars, clockVars, cur>>
    /\ UNCHANGED <<histVars, daemonVars>>
    /\ UNCHANGED auxVars

\* an abort request fails; the rejection is swallowed by .catch(() => {})
AbortLost ==
    /\ AtAwait
    /\ aborts > 0
    /\ aborts' = aborts - 1
    /\ UNCHANGED <<inflight, lastMsg, curOut, stream, trackerVars, inputVars,
                   displayVars, loopVars, clockVars, cur>>
    /\ UNCHANGED <<histVars, daemonVars>>
    /\ UNCHANGED auxVars

\* the agent at work in the session closes a work item, as the prompts tell
\* it to (`mneme close <id>`)
AgentTracker(b) ==
    /\ AtAwait
    /\ inflight # <<>>
    /\ beads[b] = "in_progress"
    /\ beads' = [beads EXCEPT ![b] = "closed"]
    /\ UNCHANGED <<lastPick, inputVars, remoteVars, displayVars, loopVars,
                   clockVars, cur>>
    /\ UNCHANGED <<histVars, daemonVars>>
    /\ UNCHANGED auxVars

(***************************************************************************)
(* Event display (createEventDisplay / createDaemonEventMonitor).          *)
(***************************************************************************)
\* the kinds of stream events: a text delta, a tool part (message.part.updated
\* with a tool-invocation or tool-result part), the update of a finished
\* message, a session.status event with status busy or idle, and an event of
\* a type the handler does not know
EventKinds == {"delta", "tool", "message", "busy", "idle", "other"}

\* the events at which handleEvent sets lastOutputTime = Date.now()
updatesOutput(ev) == ev \in {"delta", "tool", "message"}

\* what turnResolve holds besides a turn's waiter: the resolver of the
\* supervisorLoopDaemon's `await monitor.waitForTurnEnd()`, and that of the
\* waitForTurnEnd().then(...) of the goal discussion's handler
UserWaiter == -1
DiscussWaiter == -2

\* done(result) of the turn whose promise is t: the first call fixes the
\* result and clears the timers; a later call returns at `if (resolved)`
doneUnguarded(c, t, result) ==
    IF c.id = t /\ c.tpc \in {"wait", "returned"}
    THEN [c EXCEPT !.resolved = TRUE, !.result = result, !.tpc = "returned"]
    ELSE c

done(c, t, result) ==
    IF c.id = t /\ c.tpc = "wait" /\ ~c.resolved
    THEN [c EXCEPT !.resolved = TRUE, !.result = result, !.tpc = "returned"]
    ELSE c

\* what the stream's completion reports: executeTurnDaemon has no quit field
streamResult(status) == Result(status, FALSE, FALSE)

\* handleEvent(event), with the .then() callback of waitForTurnEnd() that a
\* resolved promise runs before any other event or timer
handleEvent(ev) ==
    /\ lastOutputTime' = IF updatesOutput(ev) THEN now ELSE lastOutputTime
    /\ IF ev = "idle" /\ turnResolve # 0
       THEN /\ cur' = done(cur, turnResolve, streamResult("idle"))
            /\ turnResolve' = 0
       ELSE UNCHANGED <<cur, turnResolve>>

\* the for-await loop of start() hands the next event of the stream over
Deliver ==
    /\ AtAwait
    /\ running
    /\ sub = "open"
    /\ stream > 0
    /\ userEvents = <<>>
    /\ stream' = stream - 1
    /\ hasReceivedAny' = TRUE
    /\ handleEvent("idle")
    /\ lastEvent' = now
    /\ IF turnResolve = UserWaiter
       THEN pc' = "loop" /\ userInteracting' = FALSE
       ELSE UNCHANGED <<pc, userInteracting>>
    /\ UNCHANGED <<inflight, lastMsg, curOut, aborts, running, trackerVars,
                   inputVars, cycle, opts, hasBeads, nsent, quitTaken, item,
                   doneItem, now, turnStartTime, nextBeat, histVars,
                   onUserMessage, userEvents, knownPromptTexts>>
    /\ UNCHANGED <<procVars, validation, sub, parseVars>>

stopKeepsWaiter ==
    /\ running' = FALSE
    /\ UNCHANGED <<cur, turnResolve>>

\* stop()
stopDisplay ==
    /\ running' = FALSE
    /\ IF turnResolve # 0
       THEN /\ cur' = done(cur, turnResolve, streamResult("stopped"))
            /\ turnResolve' = 0
       ELSE UNCHANGED <<cur, turnResolve>>

(***************************************************************************)
(* Stream parser (createClient: subscribeEvents).  A line of the stream is *)
(* an `event:` line with a type, a `data:` line with a payload, or the     *)
(* empty line that ends a frame.  A payload is the JSON text of an object  *)
(* {type, properties} ("object": type may be absent, then ""), or text     *)
(* that JSON.parse rejects: "garbage" (some characters) or "empty" (none). *)
(***************************************************************************)
EventLine(type) == [k |-> "event", type |-> type, form |-> "none"]
DataLine(form, type) == [k |-> "data", type |-> type, form |-> form]
BlankLine == [k |-> "blank", type |-> "", form |-> "none"]

\* an event as subscribeEvents builds it: type "" is an absent type; props
\* is "unset", "status" (the properties object of the payload, a status
\* idle), "raw" (the text of the data line, not empty) or "rawEmpty" ("")
Event(type, props) == [type |-> type, props |-> props]
NoEvent == Event("", "unset")

\* JSON.parse(data) throws
parseThrows(form) == form \in {"garbage", "empty"}

\* the value is truthy
truthy(props) == props \in {"status", "raw"}

\* the `data:` branch: try { JSON.parse ... } catch { properties = data }
dataLine(ce, line) ==
    IF parseThrows(line.form)
    THEN Event(ce.type, IF line.form = "garbage" THEN "raw" ELSE "rawEmpty")
    ELSE Event(IF ce.type = "" THEN line.type ELSE ce.type, "status")

\* one line read by subscribeEvents: the currentEvent after it and what it
\* yields
subscribeEvents(ce, line) ==
    IF line.k = "event" THEN [ce |-> Event(line.type, ce.props), out |-> <<>>]
    ELSE IF line.k = "data" THEN [ce |-> dataLine(ce, line), out |-> <<>>]
    ELSE IF ce.type # "" \/ truthy(ce.props)
    THEN [ce |-> NoEvent, out |-> <<ce>>]
    ELSE [ce |-> ce, out |-> <<>>]

\* the kind of event handleEvent takes the yielded event for
kindOf(ev) ==
    IF ev.type = "session.status"
    THEN (IF ev.props = "status" THEN "idle" ELSE "busy")
    ELSE "other"

(***************************************************************************)
(* Model binding (parseArgs: opts.planner, opts.executor; parseModelSpec).  *)
(* A model spec is the text of the option as a sequence of its pieces, "/"  *)
(* being a piece of its own; <<>> is the empty text of `--planner=`.        *)
(***************************************************************************)
DEFAULT_PLANNER == <<"github-copilot", "/", "gpt-4.1">>
DEFAULT_EXECUTOR == <<"github-copilot", "/", "claude-opus-4.6">>

\* the values of --planner / --executor that are tried
ModelSpecs == {<<>>, <<"gpt-4.1">>, DEFAULT_PLANNER, DEFAULT_EXECUTOR}

\* spec.indexOf("/"): 0 stands for -1
indexOfSlash(spec) ==
    LET hits == {i \in 1..Len(spec) : spec[i] = "/"}
    IN  IF hits = {} THEN 0 ELSE CHOOSE i \in hits : \A j \in hits : i <= j

\* parseModelSpec(spec): null is <<>>
parseModelSpec(spec) ==
    IF spec = <<>> THEN <<>>
    ELSE LET slash == indexOfSlash(spec)
         IN  IF slash = 0 THEN <<[providerID |-> <<>>, modelID |-> spec]>>
             ELSE <<[providerID |-> SubSeq(spec, 1, slash - 1),
                     modelID |-> SubSeq(spec, slash + 1, Len(spec))]>>

\* the modelSpec argument of the call of executeTurn at a site of the loop
modelSpecOf(site, o) ==
    IF site \in {"postgo", "executor"} THEN parseModelSpec(o.executor)
    ELSE parseModelSpec(o.planner)

\* body.model of the request (<<>>: the body has no model)
bodyModel(modelSpec) == IF modelSpec # <<>> THEN modelSpec ELSE <<>>

(***************************************************************************)
(* The daemon's own prompts (createDaemonEventMonitor: knownPromptTexts).  *)
(* The text of a message is the prompt a builder made, or what the user    *)
(* typed in the TUI.                                                       *)
(***************************************************************************)
\* buildSystemContext(opts)
SystemContext == Prompt("context", <<>>, <<>>)

\* the text t typed by the user
TuiText(t) == Prompt("tui", <<>>, <<t>>)

registerPromptNothing(known, text) == known

\* registerPrompt(text): knownPromptTexts.add(text.trim())
registerPrompt(known, text) == known \cup {text}

\* handleEvent, message.updated with role user: the text is not one the
\* daemon registered
isUserMessage(known, text) == text \notin known

(***************************************************************************)
(* Turn executor (executeTurnHeadless, executeTurnDaemon).                 *)
(***************************************************************************)
HEARTBEAT_INTERVAL == 15000
SILENCE_WARN == 30000
SILENCE_ABORT == 120000
PROBE_SLEEP == 2000

\* await client.session.promptAsync(sessionId, body): the session takes the
\* prompt (ok) and announces the new user message with a message.updated
\* event, or the request fails and the await throws; executeTurnDaemon has
\* called monitor.registerPrompt(prompt) before
TurnSubmit(ok) ==
    /\ cur.tpc = "submit"
    /\ nsent < MaxTurns
    /\ IF ok
       THEN /\ nsent' = nsent + 1
            /\ inflight' = Append(inflight, [id |-> cur.id,
                                             role |-> RoleOf(cur.prompt),
                                             item |-> item,
                                             model |-> bodyModel(
                                                 modelSpecOf(cur.site, opts))])
            /\ lastMsg' = Msg("user", PromptHasSentinel(cur.prompt), FALSE)
            /\ cur' = [cur EXCEPT !.tpc = "probe"]
            /\ doneItem' = IF cur.site = "planner" THEN <<>> ELSE doneItem
            /\ UNCHANGED <<pc, running, turnResolve>>
       ELSE /\ pc' = "crashed"
            /\ IF cur.site \in {"planner", "executor"}
               THEN stopDisplay
               ELSE UNCHANGED <<cur, running, turnResolve>>
            /\ UNCHANGED <<nsent, inflight, lastMsg, doneItem>>
    /\ IF opts.mode = "daemon"
       THEN /\ knownPromptTexts' = registerPrompt(knownPromptTexts, cur.prompt)
            /\ userEvents' = IF ok THEN Append(userEvents, cur.prompt)
                             ELSE userEvents
       ELSE UNCHANGED <<knownPromptTexts, userEvents>>
    /\ UNCHANGED <<curOut, aborts, stream, cycle, opts, hasBeads, quitTaken,
                   item, trackerVars, inputVars, clockVars>>
    /\ UNCHANGED <<histVars, userInteracting, onUserMessage>>
    /\ UNCHANGED auxVars

\* the probe after sleep(2000) (pok: session.list and session.messages
\* answer): the session is not running and its last message holds an error
probeFindsError(pok) == pok /\ inflight = <<>> /\ lastMsg.error

probeResult == Result("error", TRUE, FALSE)

\* the return of the probe, or new Promise(...) at time t: waitForTurnEnd()
\* and the intervals
TurnProbeBody(pok, t) ==
    IF probeFindsError(pok)
    THEN /\ cur' = [cur EXCEPT !.tpc = "returned", !.result = probeResult]
         /\ UNCHANGED <<turnResolve, turnStartTime, nextBeat>>
    ELSE /\ cur' = [cur EXCEPT !.tpc = "wait", !.resolved = FALSE,
                               !.warned = FALSE]
         /\ turnResolve' = cur.id
         /\ turnStartTime' = t
         /\ nextBeat' = t + HEARTBEAT_INTERVAL

\* the silence the two intervals compute
silenceMs(t, lastOut, start) == IF lastOut > 0 THEN t - lastOut ELSE t - start

heartbeatStrict(c, ms) ==
    IF c.resolved THEN c
    ELSE IF ms > SILENCE_ABORT
    THEN done([c EXCEPT !.abortCalls = c.abortCalls + 1], c.id,
              Result("aborted", TRUE, FALSE))
    ELSE IF ms >= SILENCE_WARN /\ ~c.warned
    THEN [c EXCEPT !.warned = TRUE]
    ELSE c

\* the heartbeat interval of executeTurnHeadless
heartbeat(c, ms) ==
    IF c.resolved THEN c
    ELSE IF ms >= SILENCE_ABORT
    THEN done([c EXCEPT !.abortCalls = c.abortCalls + 1], c.id,
              Result("aborted", TRUE, FALSE))
    ELSE IF ms >= SILENCE_WARN /\ ~c.warned
    THEN [c EXCEPT !.warned = TRUE]
    ELSE c

\* the silence check interval of executeTurnDaemon
silenceCheck(c, ms) ==
    IF c.resolved THEN c
    ELSE IF ms >= SILENCE_ABORT
    THEN done([c EXCEPT !.abortCalls = c.abortCalls + 1], c.id,
              Result("aborted", TRUE, FALSE))
    ELSE c

\* the poll interval of executeTurnHeadless over the drained items: the
\* result it resolves with (none: <<>>) and the queue after its pushBack()s
RECURSIVE pollItems(_, _)
pollItems(items, q) ==
    IF items = <<>> THEN [res |-> <<>>, queue |-> q]
    ELSE LET it == Head(items)
         IN  IF it.type = "quit"
             THEN [res |-> <<Result("quit", FALSE, TRUE)>>, queue |-> q]
             ELSE IF it.type = "abort"
             THEN [res |-> <<Result("aborted", TRUE, FALSE)>>, queue |-> q]
             ELSE IF it.type \in {"message", "skip"}
             THEN pollItems(Tail(items), pushBack(q, it))
             ELSE pollItems(Tail(items), q)

\* the poll interval fires with items queued
PollBody ==
    /\ cur.tpc = "wait"
    /\ opts.mode = "headless"
    /\ hasMessages(queue)
    /\ LET r == pollItems(queue, <<>>)
       IN  /\ queue' = r.queue
           /\ quitTaken' = (quitTaken \/ HasQuit(queue))
           /\ IF r.res # <<>>
              THEN /\ cur' = done([cur EXCEPT !.abortCalls = cur.abortCalls + 1],
                                  cur.id, r.res[1])
                   /\ aborts' = aborts + 1
              ELSE UNCHANGED <<cur, aborts>>

(***************************************************************************)
(* Supervisor loop, headless (supervisorLoopHeadless and its sub-flows).   *)
(*   pc: "setup", "ask", "turn", "discussWait", "loop", "awaitInput",      *)
(*       "plannerCheck", "done", "crashed"                                 *)
(***************************************************************************)
\* a call of executeTurnHeadless: resetTurn(), then promptAsync is under way
StartTurn(site, prompt) ==
    /\ cur' = Turn(nsent + 1, site, prompt, "submit")
    /\ curOut' = "none"
    /\ pc' = "turn"

\* return / break out of the loop: eventDisplay.stop()
Finish ==
    /\ pc' = "done"
    /\ stopDisplay

\* what a probe of validateModels comes to: the model answers ("ok"), the
\* answer holds info.error ("rejected"), the request throws ("failed"), or
\* it throws with a message that contains "unavailable" or "rejected"
ProbeOutcomes == {"ok", "rejected", "failed", "failedUnavailable"}

\* the probe makes validateModels throw
probeFatal(o) == o \in {"rejected", "failedUnavailable"}

\* validateModels: o1 and o2 are the outcomes of the planner's and of the
\* executor's probe; same: opts.planner and opts.executor are one spec
validateModelsPlannerOnly(same, o1, o2) ==
    IF probeFatal(o1)
    THEN [probes |-> 1, ok |-> FALSE, rejected |-> o1 = "rejected"]
    ELSE IF same THEN [probes |-> 1, ok |-> TRUE, rejected |-> FALSE]
    ELSE [probes |-> 2, ok |-> TRUE, rejected |-> o2 = "rejected"]

validateModels(same, o1, o2) ==
    IF probeFatal(o1)
    THEN [probes |-> 1, ok |-> FALSE, rejected |-> o1 = "rejected"]
    ELSE IF same THEN [probes |-> 1, ok |-> TRUE, rejected |-> FALSE]
    ELSE [probes |-> 2, ok |-> ~probeFatal(o2), rejected |-> o2 = "rejected"]

\* session.create, validateModels, eventDisplay.start(), context injection,
\* and the entry of askStartModeHeadless when no goal was given
Setup(o1, o2, q) ==
    /\ pc = "setup"
    /\ opts.mode = "headless"
    /\ LET v == validateModels(opts.same, o1, o2)
       IN  /\ validation' = [probes |-> v.probes, rejected |-> v.rejected]
           /\ IF ~v.ok
              THEN /\ pc' = "crashed"
                   /\ UNCHANGED <<running, hasBeads>>
              ELSE /\ running' = TRUE
                   /\ pc' = IF opts.goal THEN "loop" ELSE "ask"
                   /\ hasBeads' =
                         IF opts.goal THEN hasBeads
                         ELSE (Len(getInProgressBeads(beads, q.ip)) > 0
                               \/ Len(getReadyBeads(beads, q.rd, q.rd2,
                                                    q.layout)) > 0)
    /\ UNCHANGED <<trackerVars, inputVars, remoteVars, turnResolve, cycle, opts,
                   nsent, quitTaken, item, doneItem, clockVars, cur>>
    /\ UNCHANGED <<histVars, daemonVars, procVars, streamVars, parseVars>>

\* the for loop of askStartModeHeadless over the drained items
RECURSIVE askItems(_, _)
askItems(items, hb) ==
    IF items = <<>> THEN "none"
    ELSE LET it == Head(items)
         IN  IF it.type = "quit" THEN "quit"
             ELSE IF it.type = "message" /\ it.text = "1" /\ hb THEN "beads"
             ELSE IF it.type = "message" /\ it.text = "2" THEN "discuss"
             ELSE askItems(Tail(items), hb)

\* askStartModeHeadless after waitForInput() returned with input; choosing
\* "discuss" enters goalDiscussionHeadless, which sends the discovery prompt
AskStep ==
    /\ pc = "ask"
    /\ hasMessages(queue)
    /\ queue' = <<>>
    /\ quitTaken' = (quitTaken \/ HasQuit(queue))
    /\ LET choice == askItems(queue, hasBeads)
       IN  IF choice = "quit"
           THEN Finish /\ UNCHANGED curOut
           ELSE IF choice = "beads"
           THEN pc' = "loop" /\ UNCHANGED <<cur, curOut, displayVars>>
           ELSE IF choice = "discuss"
           THEN StartTurn("discovery", buildPlannerDiscoveryPrompt)
                /\ UNCHANGED displayVars
           ELSE UNCHANGED <<pc, cur, curOut, displayVars>>
    /\ UNCHANGED <<closed, typed, trackerVars, inflight, lastMsg, aborts, stream,
                   cycle, opts, hasBeads, nsent, item, doneItem, clockVars>>
    /\ UNCHANGED <<histVars, daemonVars>>
    /\ UNCHANGED auxVars

\* the for loop of goalDiscussionHeadless over the drained items
RECURSIVE discussItems(_, _)
discussItems(items, userText) ==
    IF items = <<>> THEN [quit |-> FALSE, go |-> FALSE, userText |-> userText]
    ELSE LET it == Head(items)
         IN  IF it.type = "quit"
             THEN [quit |-> TRUE, go |-> FALSE, userText |-> userText]
             ELSE IF it.type = "message" /\ it.text = "/go"
             THEN [quit |-> FALSE, go |-> TRUE, userText |-> userText]
             ELSE IF it.type = "message"
             THEN discussItems(Tail(items), <<it.text>>)
             ELSE discussItems(Tail(items), userText)

\* one round of the discussion loop of goalDiscussionHeadless
DiscussStep ==
    /\ pc = "discussWait"
    /\ opts.mode = "headless"
    /\ hasMessages(queue)
    /\ queue' = <<>>
    /\ quitTaken' = (quitTaken \/ HasQuit(queue))
    /\ LET d == discussItems(queue, <<>>)
       IN  IF d.quit
           THEN Finish /\ UNCHANGED <<curOut, item>>
           ELSE IF d.go
           THEN /\ StartTurn("finalize", buildPlannerFinalizeGoalPrompt)
                /\ item' = buildPlannerFinalizeGoalPrompt
                /\ UNCHANGED displayVars
           ELSE IF d.userText # <<>>
           THEN /\ StartTurn("discuss", discussPrompt(d.userText[1]))
                /\ UNCHANGED <<displayVars, item>>
           ELSE UNCHANGED <<pc, cur, curOut, displayVars, item>>
    /\ UNCHANGED <<closed, typed, trackerVars, inflight, lastMsg, aborts, stream,
                   cycle, opts, hasBeads, nsent, doneItem, clockVars>>
    /\ UNCHANGED <<histVars, daemonVars>>
    /\ UNCHANGED auxVars

\* the for loop at the top of the while loop over the drained items
RECURSIVE loopItems(_, _)
loopItems(items, acc) ==
    IF items = <<>> THEN acc
    ELSE LET it == Head(items)
         IN  IF it.type = "quit" THEN [acc EXCEPT !.quit = TRUE]
             ELSE IF it.type = "skip"
             THEN loopItems(Tail(items), [acc EXCEPT !.shouldSkip = TRUE])
             ELSE IF it.type = "message"
             THEN loopItems(Tail(items), [acc EXCEPT !.userFeedback = <<it.text>>])
             ELSE loopItems(Tail(items), acc)

NoItems == [quit |-> FALSE, shouldSkip |-> FALSE, userFeedback |-> <<>>]

withinCyclesOrAt(cyc, maxCycles) == cyc <= maxCycles

\* the condition of the while loop
withinCycles(cyc, maxCycles) == cyc < maxCycles

choosePromptFirst(cyc, goal, pick, userFeedback) ==
    IF goal THEN buildPlannerGoalPrompt ELSE pick.prompt

\* the planner prompt the loop chooses, and the selector call it makes
choosePrompt(cyc, goal, pick, userFeedback) ==
    IF cyc = 0
    THEN IF goal THEN buildPlannerGoalPrompt ELSE pick.prompt
    ELSE buildPlannerReviewPrompt(userFeedback)

\* one pass from the while condition to the next await: the drain, the
\* choice of the planner prompt, and cycle++ with the planner turn, or
\* waitForInput(), or the end of the loop
LoopTop(q, qo) ==
    /\ pc = "loop"
    /\ opts.mode = "headless"
    /\ IF ~withinCycles(cycle, opts.maxCycles)
       THEN /\ Finish
            /\ UNCHANGED <<queue, quitTaken, beads, cycle, curOut, item>>
       ELSE LET d == loopItems(queue, NoItems)
                pick == pickBeadForPlanner(beads, q)
                plannerPrompt == choosePrompt(cycle, opts.goal, pick,
                                              d.userFeedback)
                picked == cycle = 0 /\ ~opts.goal
            IN  /\ queue' = <<>>
                /\ quitTaken' = (quitTaken \/ HasQuit(queue))
                /\ IF d.quit
                   THEN /\ Finish
                        /\ UNCHANGED <<beads, cycle, curOut, item>>
                   ELSE /\ beads' = IF picked THEN pick.beads ELSE beads
                        /\ IF plannerPrompt = NoPrompt
                           THEN /\ IF getOpenBeads(beads, qo) = <<>>
                                   THEN Finish
                                   ELSE /\ pc' = "awaitInput"
                                        /\ UNCHANGED <<cur, displayVars>>
                                /\ UNCHANGED <<cycle, curOut, item>>
                           ELSE /\ cycle' = cycle + 1
                                /\ item' = IF cycle = 0 THEN plannerPrompt
                                           ELSE item
                                /\ StartTurn("planner", plannerPrompt)
                                /\ UNCHANGED displayVars
    /\ ncycles' = IF cycle' = cycle + 1 THEN ncycles + 1 ELSE ncycles
    /\ UNCHANGED <<lastPick, closed, typed, inflight, lastMsg, aborts, stream,
                   opts, hasBeads, nsent, doneItem, clockVars, lastTurn,
                   daemonVars>>
    /\ waited' = FALSE
    /\ UNCHANGED auxVars

\* while the loop waits for them ("All beads blocked. Waiting for user
\* input..."), the user removes what blocks a work item
Unblock(b) ==
    /\ pc = "awaitInput"
    /\ beads[b] = "blocked"
    /\ beads' = [beads EXCEPT ![b] = "ready"]
    /\ UNCHANGED <<lastPick, inputVars, remoteVars, displayVars, loopVars,
                   clockVars, histVars, daemonVars, cur>>
    /\ UNCHANGED auxVars

\* rl.on("close"): the input stream ends (end of file on stdin) while the
\* loop waits for the user
CloseInput ==
    /\ pc = "awaitInput"
    /\ opts.tty /\ ~closed
    /\ closed' = TRUE
    /\ UNCHANGED <<queue, typed, trackerVars, remoteVars, displayVars, loopVars,
                   clockVars, histVars, daemonVars, cur>>
    /\ UNCHANGED auxVars

\* waitForInput() returns: an item is queued or the reader is closed
AwaitInput ==
    /\ pc = "awaitInput"
    /\ hasMessages(queue) \/ closed
    /\ pc' = "loop"
    /\ waited' = TRUE
    /\ UNCHANGED <<trackerVars, inputVars, remoteVars, displayVars, cycle, opts,
                   hasBeads, nsent, quitTaken, item, doneItem, clockVars, cur,
                   lastTurn, ncycles, daemonVars>>
    /\ UNCHANGED auxVars

\* executeTurnHeadless has returned to its caller
TurnReturn ==
    /\ pc = "turn"
    /\ opts.mode = "headless"
    /\ cur.tpc = "returned"
    /\ LET r == cur.result
       IN  \/ /\ cur.site \in {"discovery", "discuss"}
              /\ IF r.quit THEN Finish
                 ELSE pc' = "discussWait" /\ cur' = NoTurn /\ UNCHANGED displayVars
              /\ UNCHANGED <<cycle, curOut>>
           \/ /\ cur.site = "finalize"
              /\ IF r.quit THEN Finish /\ UNCHANGED <<cycle, curOut>>
                 ELSE /\ cycle' = cycle + 1
                      /\ StartTurn("postgo", buildExecutorPrompt)
                      /\ UNCHANGED displayVars
           \/ /\ cur.site \in {"postgo", "executor"}
              /\ IF r.quit THEN Finish
                 ELSE pc' = "loop" /\ cur' = NoTurn /\ UNCHANGED displayVars
              /\ UNCHANGED <<cycle, curOut>>
           \/ /\ cur.site = "planner"
              /\ IF r.quit THEN Finish
                 ELSE IF r.aborted
                 THEN pc' = "loop" /\ cur' = NoTurn /\ UNCHANGED displayVars
                 ELSE pc' = "plannerCheck" /\ UNCHANGED <<cur, displayVars>>
              /\ UNCHANGED <<cycle, curOut>>
    /\ lastTurn' = [site |-> cur.site, prompt |-> cur.prompt,
                    result |-> cur.result]
    /\ ncycles' = IF cycle' = cycle + 1 THEN ncycles + 1 ELSE ncycles
    /\ UNCHANGED <<trackerVars, inputVars, inflight, lastMsg, aborts, stream,
                   opts, hasBeads, nsent, quitTaken, item, doneItem, clockVars,
                   waited, daemonVars>>
    /\ UNCHANGED auxVars

\* plannerSaidDone: the last message of the session contains TASK_DONE
\* (mok: client.session.messages answers; a failure is caught and ignored)
plannerSaidDone(mok, last) == mok /\ MsgHasSentinel(last)

\* the TASK_DONE check after a planner turn, then either the reselection
\* or the executor turn
PlannerCheck(mok, q) ==
    /\ pc = "plannerCheck"
    /\ IF plannerSaidDone(mok, lastMsg)
       THEN LET nextBead == pickBeadForPlanner(beads, q)
            IN  /\ cycle' = 0
                /\ beads' = nextBead.beads
                /\ doneItem' = <<item>>
                /\ IF nextBead.prompt = NoPrompt
                   THEN Finish
                   ELSE pc' = "loop" /\ cur' = NoTurn /\ UNCHANGED displayVars
                /\ UNCHANGED curOut
       ELSE /\ StartTurn("executor", buildExecutorPrompt)
            /\ UNCHANGED <<cycle, beads, displayVars, doneItem>>
    /\ UNCHANGED <<lastPick, inputVars, inflight, lastMsg, aborts, stream, opts,
                   hasBeads, nsent, quitTaken, item, clockVars>>
    /\ UNCHANGED <<histVars, daemonVars>>
    /\ UNCHANGED auxVars

\* executeTurnHeadless: the probe and the registration of the watchers
TurnProbe(pok) ==
    /\ cur.tpc = "probe"
    /\ TurnProbeBody(pok, now)
    /\ UNCHANGED <<trackerVars, inputVars, remoteVars, running, loopVars, now,
                   lastOutputTime, lastEvent>>
    /\ UNCHANGED <<histVars, daemonVars>>
    /\ UNCHANGED auxVars

\* the heartbeat interval fires; the clock being abstracted, the silence it
\* computes from Date.now() is below the warning or at the abort threshold
Heartbeat(ms) ==
    /\ cur.tpc = "wait"
    /\ opts.mode = "headless"
    /\ cur' = heartbeat(cur, ms)
    /\ aborts' = aborts + (cur'.abortCalls - cur.abortCalls)
    /\ UNCHANGED <<inflight, lastMsg, curOut, stream, trackerVars, inputVars,
                   displayVars, loopVars, clockVars>>
    /\ UNCHANGED <<histVars, daemonVars>>
    /\ UNCHANGED auxVars

SilenceSamples == {0, SILENCE_ABORT}

\* the poll interval fires
Poll ==
    /\ PollBody
    /\ UNCHANGED <<closed, typed, inflight, lastMsg, curOut, stream, trackerVars,
                   displayVars, pc, cycle, opts, hasBeads, nsent, item, doneItem,
                   clockVars>>
    /\ UNCHANGED <<histVars, daemonVars>>
    /\ UNCHANGED auxVars

\* the tracker outcomes tried in the loop: all commands succeed, the
\* in-progress query fails, the update fails, the ready query answers text
LoopOutcomes ==
    {AllOk, [AllOk EXCEPT !.ip = "fail"], [AllOk EXCEPT !.up = "fail"],
     [AllOk EXCEPT !.rd = "text", !.layout = "listing"]}

(***************************************************************************)
(* Spec: the headless supervisor.                                          *)
(***************************************************************************)
InitBase ==
    /\ lastPick = <<>>
    /\ queue = <<>>
    /\ closed = FALSE
    /\ typed = 0
    /\ inflight = <<>>
    /\ lastMsg = NoMsg
    /\ curOut = "none"
    /\ aborts = 0
    /\ stream = 0
    /\ turnResolve = 0
    /\ cycle = 0
    /\ hasBeads = FALSE
    /\ nsent = 0
    /\ quitTaken = FALSE
    /\ item = NoPrompt
    /\ doneItem = <<>>
    /\ turnStartTime = 0
    /\ nextBeat = 0
    /\ lastTurn = [site |-> "none", prompt |-> NoPrompt, result |-> NoResult]
    /\ ncycles = 0
    /\ waited = FALSE
    /\ userInteracting = FALSE
    /\ onUserMessage = "none"
    /\ userEvents = <<>>
    /\ knownPromptTexts = {}

\* the foreground process lives, no daemon has read its parent's pid, no
\* model was probed, the event subscription is open
RunInit ==
    /\ parentAlive = TRUE
    /\ parentPid = "none"
    /\ validation = [probes |-> 0, rejected |-> FALSE]
    /\ sub = "open"
    /\ hasReceivedAny = FALSE

\* the server was found running on the port: it is not this run's child
ServerInit ==
    /\ serverCtx = [serverProcess |-> <<>>, alreadyRunning |-> TRUE]
    /\ procs = [child |-> "none", other |-> "alive"]

\* the stream parser is not looked at
AuxInit ==
    /\ RunInit
    /\ ServerInit
    /\ lines = [text |-> <<>>, read |-> 0]
    /\ currentEvent = NoEvent
    /\ yielded = <<>>

InitCommon == InitBase /\ AuxInit

Init ==
    /\ InitCommon
    /\ beads \in [Beads -> {"ready", "blocked"}]
    /\ pc = "setup"
    /\ running = FALSE
    /\ cur = NoTurn
    /\ now = 0
    /\ lastOutputTime = 0
    /\ lastEvent = 0
    /\ opts \in [goal : BOOLEAN, maxCycles : {MaxCycles}, tty : {TRUE},
                 mode : {"headless"}, same : {FALSE},
                 planner : {DEFAULT_PLANNER}, executor : {DEFAULT_EXECUTOR},
                 attach : {FALSE}]

Next ==
    \/ \E line \in Lines : UserLine(line)
    \/ \E said \in BOOLEAN : RemoteFinish(said)
    \/ RemoteFail
    \/ RemoteAbort
    \/ AbortLost
    \/ \E b \in Beads : AgentTracker(b)
    \/ Deliver
    \/ \E o1 \in ProbeOutcomes, o2 \in ProbeOutcomes, q \in LoopOutcomes :
          Setup(o1, o2, q)
    \/ AskStep
    \/ DiscussStep
    \/ \E q \in LoopOutcomes, qo \in {"json", "fail"} : LoopTop(q, qo)
    \/ \E b \in Beads : Unblock(b)
    \/ CloseInput
    \/ AwaitInput
    \/ \E ok \in BOOLEAN : TurnSubmit(ok)
    \/ \E pok \in BOOLEAN : TurnProbe(pok)
    \/ \E ms \in SilenceSamples : Heartbeat(ms)
    \/ Poll
    \/ TurnReturn
    \/ \E mok \in BOOLEAN, q \in LoopOutcomes : PlannerCheck(mok, q)

Spec == Init /\ [][Next]_vars

(***************************************************************************)
(* SpecSetup: the headless run with one model for both roles or with two.  *)
(***************************************************************************)
SetupInit ==
    /\ InitCommon
    /\ beads \in [Beads -> {"ready", "blocked"}]
    /\ pc = "setup"
    /\ running = FALSE
    /\ cur = NoTurn
    /\ now = 0
    /\ lastOutputTime = 0
    /\ lastEvent = 0
    /\ opts \in {o \in [goal : {FALSE}, maxCycles : {MaxCycles}, tty : {TRUE},
                          mode : {"headless"}, same : BOOLEAN,
                          planner : {DEFAULT_PLANNER},
                          executor : {DEFAULT_PLANNER, DEFAULT_EXECUTOR},
                          attach : {FALSE}] :
                     o.same = (o.planner = o.executor)}

SpecSetup == SetupInit /\ [][Next]_vars

(***************************************************************************)
(* Supervisor loop, daemon (supervisorLoopDaemon, goalDiscussionDaemon).   *)
(*   pc: "setup", "turn", "discussWait", "loop", "userWait", "sleep",      *)
(*       "plannerCheck", "done", "crashed"                                 *)
(***************************************************************************)
\* what the user types in the TUI
TuiTexts == {"/go", "hi"}

\* the user sends a message from the TUI: the session takes it as a prompt
\* of its own and announces it with a message.updated event
TuiMessage(text) ==
    /\ AtAwait
    /\ opts.mode = "daemon"
    /\ pc \notin {"setup", "done", "crashed"}
    /\ typed < MaxTyped
    /\ stream = 0
    /\ typed' = typed + 1
    /\ inflight' = Append(inflight, [id |-> 0, role |-> "user",
                                     item |-> NoPrompt, model |-> <<>>])
    /\ lastMsg' = Msg("user", FALSE, FALSE)
    /\ userEvents' = Append(userEvents, TuiText(text))
    /\ UNCHANGED <<queue, closed, curOut, aborts, stream, trackerVars,
                   displayVars, loopVars, clockVars, histVars, userInteracting,
                   onUserMessage, knownPromptTexts, cur>>
    /\ UNCHANGED auxVars

\* handleEvent of a message.updated event with role user: if the text is
\* not in knownPromptTexts, onUserMessage(text), which is the handler of
\* supervisorLoopDaemon or that of goalDiscussionDaemon
UserEvent ==
    /\ AtAwait
    /\ running
    /\ userEvents # <<>>
    /\ userEvents' = Tail(userEvents)
    /\ LET text == Head(userEvents)
       IN  IF ~isUserMessage(knownPromptTexts, text)
           THEN UNCHANGED <<userInteracting, onUserMessage, turnResolve, cur,
                            curOut, pc, item, knownPromptTexts>>
           ELSE IF onUserMessage = "discuss" /\ text = TuiText("/go")
           THEN /\ onUserMessage' = "loop"
                /\ knownPromptTexts' =
                      registerPrompt(knownPromptTexts,
                                     buildPlannerFinalizeGoalPrompt)
                /\ StartTurn("finalize", buildPlannerFinalizeGoalPrompt)
                /\ item' = buildPlannerFinalizeGoalPrompt
                /\ UNCHANGED <<userInteracting, turnResolve>>
           ELSE IF onUserMessage = "discuss"
           THEN /\ turnResolve' = DiscussWaiter
                /\ UNCHANGED <<userInteracting, onUserMessage, cur, curOut, pc,
                               item, knownPromptTexts>>
           ELSE /\ userInteracting' = (userInteracting \/ onUserMessage = "loop")
                /\ UNCHANGED <<onUserMessage, turnResolve, cur, curOut, pc,
                               item, knownPromptTexts>>
    /\ UNCHANGED <<inflight, lastMsg, aborts, stream, running, trackerVars,
                   inputVars, cycle, opts, hasBeads, nsent, quitTaken, doneItem,
                   clockVars, histVars>>
    /\ UNCHANGED auxVars

\* monitor.start(), the loop's onUserMessage handler, context injection (the
\* system context is registered, then sent as a message without reply), and
\* without a goal the discovery turn of goalDiscussionDaemon
DaemonSetup ==
    /\ pc = "setup"
    /\ opts.mode = "daemon"
    /\ running' = TRUE
    /\ onUserMessage' = "loop"
    /\ knownPromptTexts' = registerPrompt(knownPromptTexts, SystemContext)
    /\ userEvents' = Append(userEvents, SystemContext)
    /\ IF opts.goal
       THEN pc' = "loop" /\ UNCHANGED <<cur, curOut>>
       ELSE StartTurn("discovery", buildPlannerDiscoveryPrompt)
    /\ UNCHANGED <<trackerVars, inputVars, inflight, lastMsg, aborts, stream,
                   turnResolve, cycle, opts, hasBeads, nsent, quitTaken, item,
                   doneItem, clockVars, histVars, userInteracting>>
    /\ UNCHANGED auxVars

\* one pass from the while condition to the next await: the pause for the
\* user's turn, or the choice of the planner prompt and the planner turn, or
\* the 30 s sleep, or the end of the loop
DaemonLoopTop(q, qo) ==
    /\ pc = "loop"
    /\ opts.mode = "daemon"
    /\ IF ~withinCycles(cycle, opts.maxCycles)
       THEN Finish /\ UNCHANGED <<beads, cycle, curOut, item>>
       ELSE IF userInteracting
       THEN /\ turnResolve' = UserWaiter
            /\ pc' = "userWait"
            /\ UNCHANGED <<beads, cycle, cur, curOut, item, running>>
       ELSE LET pick == pickBeadForPlanner(beads, q)
                plannerPrompt == choosePrompt(cycle, opts.goal, pick, <<>>)
                picked == cycle = 0 /\ ~opts.goal
            IN  /\ beads' = IF picked THEN pick.beads ELSE beads
                /\ IF plannerPrompt = NoPrompt
                   THEN /\ IF getOpenBeads(beads, qo) = <<>>
                           THEN Finish
                           ELSE /\ pc' = "sleep"
                                /\ UNCHANGED <<cur, displayVars>>
                        /\ UNCHANGED <<cycle, curOut, item>>
                   ELSE /\ cycle' = cycle + 1
                        /\ item' = IF cycle = 0 THEN plannerPrompt ELSE item
                        /\ StartTurn("planner", plannerPrompt)
                        /\ UNCHANGED displayVars
    /\ ncycles' = IF cycle' = cycle + 1 THEN ncycles + 1 ELSE ncycles
    /\ UNCHANGED <<lastPick, inputVars, inflight, lastMsg, aborts, stream, opts,
                   hasBeads, nsent, quitTaken, doneItem, clockVars, lastTurn,
                   waited, daemonVars>>
    /\ UNCHANGED auxVars

\* sleep(1000) after an executor turn, or sleep(30_000) with all work blocked,
\* is over
DaemonWake ==
    /\ pc = "sleep"
    /\ pc' = "loop"
    /\ UNCHANGED <<trackerVars, inputVars, remoteVars, displayVars, cycle, opts,
                   hasBeads, nsent, quitTaken, item, doneItem, clockVars,
                   histVars, daemonVars, cur>>
    /\ UNCHANGED auxVars

\* executeTurnDaemon has returned to its caller
DaemonTurnReturn ==
    /\ pc = "turn"
    /\ opts.mode = "daemon"
    /\ cur.tpc = "returned"
    /\ \/ /\ cur.site = "discovery"
          /\ pc' = "discussWait" /\ cur' = NoTurn
          /\ onUserMessage' = "discuss"
          /\ UNCHANGED <<cycle, curOut>>
       \/ /\ cur.site = "finalize"
          /\ cycle' = cycle + 1
          /\ StartTurn("postgo", buildExecutorPrompt)
          /\ UNCHANGED onUserMessage
       \/ /\ cur.site \in {"postgo", "executor"}
          /\ pc' = "sleep" /\ cur' = NoTurn
          /\ UNCHANGED <<cycle, curOut, onUserMessage>>
       \/ /\ cur.site = "planner"
          /\ IF cur.result.aborted
             THEN pc' = "loop" /\ cur' = NoTurn
             ELSE pc' = "plannerCheck" /\ UNCHANGED cur
          /\ UNCHANGED <<cycle, curOut, onUserMessage>>
    /\ lastTurn' = [site |-> cur.site, prompt |-> cur.prompt,
                    result |-> cur.result]
    /\ ncycles' = IF cycle' = cycle + 1 THEN ncycles + 1 ELSE ncycles
    /\ UNCHANGED <<trackerVars, inputVars, inflight, lastMsg, aborts, stream,
                   displayVars, opts, hasBeads, nsent, quitTaken, item, doneItem,
                   clockVars, waited, userInteracting, userEvents,
                   knownPromptTexts>>
    /\ UNCHANGED auxVars

\* the silence check interval fires; the clock being abstracted, the silence
\* it computes is below or at the abort threshold
DaemonSilence(ms) ==
    /\ cur.tpc = "wait"
    /\ opts.mode = "daemon"
    /\ cur' = silenceCheck(cur, ms)
    /\ aborts' = aborts + (cur'.abortCalls - cur.abortCalls)
    /\ UNCHANGED <<inflight, lastMsg, curOut, stream, trackerVars, inputVars,
                   displayVars, loopVars, clockVars, histVars, daemonVars>>
    /\ UNCHANGED auxVars

(***************************************************************************)
(* SpecDaemon: the daemon supervisor, with the user at the TUI.            *)
(***************************************************************************)
DaemonInit ==
    /\ InitCommon
    /\ beads \in [Beads -> {"ready", "blocked"}]
    /\ pc = "setup"
    /\ running = FALSE
    /\ cur = NoTurn
    /\ now = 0
    /\ lastOutputTime = 0
    /\ lastEvent = 0
    /\ opts \in [goal : BOOLEAN, maxCycles : {MaxCycles}, tty : {FALSE},
                 same : {FALSE}, mode : {"daemon"},
                 planner : {DEFAULT_PLANNER}, executor : {DEFAULT_EXECUTOR},
                 attach : {FALSE}]

DaemonNext ==
    \/ \E text \in TuiTexts : TuiMessage(text)
    \/ UserEvent
    \/ \E said \in BOOLEAN : RemoteFinish(said)
    \/ RemoteFail
    \/ RemoteAbort
    \/ AbortLost
    \/ \E b \in Beads : AgentTracker(b)
    \/ Deliver
    \/ DaemonSetup
    \/ \E q \in LoopOutcomes, qo \in {"json", "fail"} : DaemonLoopTop(q, qo)
    \/ DaemonWake
    \/ \E ok \in BOOLEAN : TurnSubmit(ok)
    \/ \E pok \in BOOLEAN : TurnProbe(pok)
    \/ \E ms \in SilenceSamples : DaemonSilence(ms)
    \/ DaemonTurnReturn
    \/ \E mok \in BOOLEAN, q \in LoopOutcomes : PlannerCheck(mok, q)

SpecDaemon == DaemonInit /\ [][DaemonNext]_vars

(***************************************************************************)
(* SpecDaemonLive: the daemon supervisor with what the scheduling          *)
(* guarantees: the event loop runs every continuation, timer and event     *)
(* handler that is due, and the session sooner or later finishes or drops  *)
(* what it has to process.  Nothing makes the user type.                   *)
(***************************************************************************)
DaemonSteps ==
    \/ DaemonSetup
    \/ \E q \in LoopOutcomes, qo \in {"json", "fail"} : DaemonLoopTop(q, qo)
    \/ DaemonWake
    \/ \E ok \in BOOLEAN : TurnSubmit(ok)
    \/ \E pok \in BOOLEAN : TurnProbe(pok)
    \/ DaemonTurnReturn
    \/ \E mok \in BOOLEAN, q \in LoopOutcomes : PlannerCheck(mok, q)

SessionSteps ==
    \/ \E said \in BOOLEAN : RemoteFinish(said)
    \/ RemoteAbort
    \/ AbortLost

DaemonFairness ==
    /\ WF_vars(DaemonSteps)
    /\ WF_vars(SessionSteps)
    /\ WF_vars(Deliver)
    /\ WF_vars(UserEvent)

SpecDaemonLive == DaemonInit /\ [][DaemonNext]_vars /\ DaemonFairness
(***************************************************************************)
(* SpecPick: the task selector called on every tracker snapshot, with      *)
(* every outcome of the commands it runs.                                  *)
(***************************************************************************)
FixedOpts(mode) ==
    [goal |-> FALSE, maxCycles |-> MaxCycles, tty |-> mode = "headless",
     mode |-> mode, same |-> FALSE, planner |-> DEFAULT_PLANNER,
     executor |-> DEFAULT_EXECUTOR, attach |-> FALSE]

PickInit ==
    /\ InitCommon
    /\ beads \in [Beads -> BeadStatus]
    /\ pc = "pick"
    /\ running = FALSE
    /\ cur = NoTurn
    /\ now = 0
    /\ lastOutputTime = 0
    /\ lastEvent = 0
    /\ opts = FixedOpts("headless")

\* a call of pickBeadForPlanner(); lastPick keeps the call
PickCall(q) ==
    /\ pc = "pick"
    /\ LET res == pickBeadForPlanner(beads, q)
       IN  /\ lastPick' = <<[before |-> beads, q |-> q, res |-> res]>>
           /\ beads' = res.beads
    /\ UNCHANGED <<inputVars, remoteVars, displayVars, loopVars, clockVars, cur>>
    /\ UNCHANGED <<histVars, daemonVars>>
    /\ UNCHANGED auxVars

PickNext == \E q \in PickOutcomes : PickCall(q)

SpecPick == PickInit /\ [][PickNext]_vars

(***************************************************************************)
(* SpecTurn: one turn of executeTurnHeadless or executeTurnDaemon against  *)
(* the wall clock.  Time moves in steps of Tick and never past a timer     *)
(* that is due.                                                            *)
(***************************************************************************)
Tick == HEARTBEAT_INTERVAL \div 3
\* number of Ticks the clock runs for
MaxTicks == 32

TurnInit ==
    /\ InitCommon
    /\ beads = [b \in Beads |-> "closed"]
    /\ pc = "single"
    /\ running = TRUE
    /\ \E mode \in {"headless", "daemon"} : opts = FixedOpts(mode)
    /\ cur = Turn(1, "planner", buildPlannerReviewPrompt(<<>>), "submit")
    /\ now = HEARTBEAT_INTERVAL
    \* an earlier turn left lastOutputTime behind, or nothing was output yet
    /\ lastOutputTime \in {0, Tick}
    /\ lastEvent = 0

\* await sleep(2000), then the probe
TimedProbe(pok) ==
    /\ cur.tpc = "probe"
    /\ now' = now + PROBE_SLEEP
    /\ TurnProbeBody(pok, now + PROBE_SLEEP)
    /\ UNCHANGED <<trackerVars, inputVars, remoteVars, running, loopVars,
                   lastOutputTime, lastEvent>>
    /\ UNCHANGED <<histVars, daemonVars>>
    /\ UNCHANGED auxVars

\* time passes
Advance ==
    /\ cur.tpc = "wait"
    /\ now < MaxTicks * Tick
    /\ now + Tick <= nextBeat
    /\ now' = now + Tick
    /\ UNCHANGED <<trackerVars, inputVars, remoteVars, displayVars, loopVars,
                   lastOutputTime, turnStartTime, nextBeat, lastEvent, cur>>
    /\ UNCHANGED <<histVars, daemonVars>>
    /\ UNCHANGED auxVars

\* the 15 s interval fires: heartbeatId (headless), silenceCheckId (daemon)
Beat ==
    /\ cur.tpc = "wait"
    /\ now = nextBeat
    /\ LET ms == silenceMs(now, lastOutputTime, turnStartTime)
       IN  cur' = IF opts.mode = "headless" THEN heartbeat(cur, ms)
                  ELSE silenceCheck(cur, ms)
    /\ aborts' = aborts + (cur'.abortCalls - cur.abortCalls)
    /\ nextBeat' = now + HEARTBEAT_INTERVAL
    /\ UNCHANGED <<inflight, lastMsg, curOut, stream, trackerVars, inputVars,
                   displayVars, loopVars, now, lastOutputTime, turnStartTime,
                   lastEvent>>
    /\ UNCHANGED <<histVars, daemonVars>>
    /\ UNCHANGED auxVars

\* the stream hands over an event other than the session's going idle
StreamEvent(ev) ==
    /\ running
    /\ sub = "open"
    /\ cur.tpc \in {"wait", "returned"}
    /\ hasReceivedAny' = TRUE
    /\ handleEvent(ev)
    /\ lastEvent' = now
    /\ UNCHANGED <<trackerVars, inputVars, remoteVars, running, loopVars, now,
                   turnStartTime, nextBeat>>
    /\ UNCHANGED <<histVars, daemonVars>>
    /\ UNCHANGED <<procVars, validation, sub, parseVars>>

TurnNext ==
    \/ \E line \in {"/quit", "/abort"} : UserLine(line)
    \/ \E said \in BOOLEAN : RemoteFinish(said)
    \/ RemoteFail
    \/ Deliver
    \/ UserEvent
    \/ \E ev \in EventKinds \ {"idle"} : StreamEvent(ev)
    \/ \E ok \in BOOLEAN : TurnSubmit(ok)
    \/ \E pok \in BOOLEAN : TimedProbe(pok)
    \/ Advance
    \/ Beat
    \/ Poll

SpecTurn == TurnInit /\ [][TurnNext]_vars

(***************************************************************************)
(* SpecSilence: a turn of executeTurnHeadless or executeTurnDaemon that    *)
(* starts two minutes or more after the display last saw output (the loop  *)
(* waited for the user, or the turn before was itself aborted for          *)
(* silence).                                                               *)
(***************************************************************************)
SilenceInit ==
    /\ InitCommon
    /\ beads = [b \in Beads |-> "closed"]
    /\ pc = "single"
    /\ running = TRUE
    /\ \E mode \in {"headless", "daemon"} : opts = FixedOpts(mode)
    /\ cur = Turn(1, "planner", buildPlannerReviewPrompt(<<>>), "submit")
    /\ now = SILENCE_ABORT
    \* nothing was output yet, or an earlier turn left lastOutputTime behind
    /\ lastOutputTime \in {0, Tick}
    /\ lastEvent = 0

SpecSilence == SilenceInit /\ [][TurnNext]_vars


(***************************************************************************)
(* SpecQueue: the interrupt queue during one turn of executeTurnHeadless.  *)
(* The user's free-text messages are numbered by arrival: the k-th line    *)
(* typed, if a message, has the text Arrival[k].                           *)
(***************************************************************************)
Arrival == <<"first", "second">>

QueueInit ==
    /\ InitCommon
    /\ beads = [b \in Beads |-> "closed"]
    /\ pc = "single"
    /\ running = TRUE
    /\ opts = FixedOpts("headless")
    /\ cur = Turn(1, "planner", buildPlannerReviewPrompt(<<>>), "submit")
    /\ now = 0
    /\ lastOutputTime = 0
    /\ lastEvent = 0

\* the lines typed during the turn: a message, /skip, /status, /abort
QueueLine(line) ==
    /\ typed < Len(Arrival)
    /\ line \in {Arrival[typed + 1], "/skip", "/status", "/abort"}
    /\ UserLine(line)

QueueNext ==
    \/ \E line \in {"first", "second", "/skip", "/status", "/abort"} :
          QueueLine(line)
    \/ \E said \in BOOLEAN : RemoteFinish(said)
    \/ Deliver
    \/ \E ok \in BOOLEAN : TurnSubmit(ok)
    \/ \E pok \in BOOLEAN : TurnProbe(pok)
    \/ Poll

SpecQueue == QueueInit /\ [][QueueNext]_vars

(***************************************************************************)
(* SpecParent: the daemon process (runDaemonProcess) and the foreground    *)
(* process that forked it (runDaemonTuiMode).  The daemon is forked        *)
(* detached; between the fork and the moment it reads process.ppid it      *)
(* awaits client.health().  pc = "boot" is that stretch, pc = "exited" a   *)
(* daemon ended by process.exit() or by a signal.                          *)
(***************************************************************************)
\* what process.ppid names when it is read: the foreground process, or,
\* the foreground process being dead already, the process that adopted the
\* daemon (init or a subreaper), which the daemon may signal ("adopter") or
\* may not ("denied": kill fails with EPERM)
PidsRead == IF parentAlive THEN {"parent"} ELSE {"adopter", "denied"}

\* process.kill(parentPid, 0) throws
killThrows(pid, alive) == (pid = "parent" /\ ~alive) \/ pid = "denied"

\* process.exit(), or the default action of a signal
Exit ==
    /\ pc' = "exited"
    /\ running' = FALSE
    /\ turnResolve' = 0
    /\ cur' = NoTurn

Terminated == pc \in {"done", "crashed", "exited"}

\* runDaemonProcess up to `const parentPid = process.ppid` and setInterval
DaemonStart(pid) ==
    /\ pc = "boot"
    /\ pid \in PidsRead
    /\ parentPid' = pid
    /\ pc' = "setup"
    /\ UNCHANGED <<trackerVars, inputVars, remoteVars, displayVars, cycle, opts,
                   hasBeads, nsent, quitTaken, item, doneItem, clockVars,
                   histVars, daemonVars, parentAlive, serverVars, validation,
                   streamVars,
                   parseVars, cur>>

\* the foreground process is killed: nothing is sent to the daemon
ParentKilled ==
    /\ parentAlive
    /\ parentAlive' = FALSE
    /\ UNCHANGED <<trackerVars, inputVars, remoteVars, displayVars, loopVars,
                   clockVars, histVars, daemonVars, parentPid, serverVars,
                   validation,
                   streamVars, parseVars, cur>>

\* the TUI exits: the foreground process sends SIGTERM to the daemon and
\* finishes
ParentQuits ==
    /\ parentAlive
    /\ parentAlive' = FALSE
    /\ IF Terminated THEN UNCHANGED <<pc, running, turnResolve, cur>> ELSE Exit
    /\ UNCHANGED <<trackerVars, inputVars, remoteVars, cycle, opts, hasBeads,
                   nsent, quitTaken, item, doneItem, clockVars, histVars,
                   daemonVars, parentPid, serverVars, validation, streamVars,
                   parseVars>>

\* parentCheckId fires (every 5 s)
ParentCheck ==
    /\ parentPid # "none"
    /\ ~Terminated
    /\ killThrows(parentPid, parentAlive)
    /\ Exit
    /\ UNCHANGED <<trackerVars, inputVars, remoteVars, cycle, opts, hasBeads,
                   nsent, quitTaken, item, doneItem, clockVars, histVars,
                   daemonVars, auxVars>>

ParentInit ==
    /\ InitCommon
    /\ beads = [b \in Beads |-> "ready"]
    /\ pc = "boot"
    /\ running = FALSE
    /\ cur = NoTurn
    /\ now = 0
    /\ lastOutputTime = 0
    /\ lastEvent = 0
    /\ \E goal \in BOOLEAN : opts = [FixedOpts("daemon") EXCEPT !.goal = goal]

ParentNext ==
    \/ DaemonNext
    \/ \E pid \in {"parent", "adopter", "denied"} : DaemonStart(pid)
    \/ ParentKilled
    \/ ParentQuits
    \/ ParentCheck

\* the event loop runs the daemon's start and every timer that is due
SpecParent ==
    /\ ParentInit /\ [][ParentNext]_vars
    /\ DaemonFairness
    /\ WF_vars(\E pid \in {"parent", "adopter", "denied"} : DaemonStart(pid))
    /\ WF_vars(ParentCheck)

(***************************************************************************)
(* SpecParse: subscribeEvents and the for-await loop of start() reading a  *)
(* stream of up to MaxFrames frames while a turn waits for its completion. *)
(***************************************************************************)
MaxFrames == 3

\* a frame: an optional `event:` line, a `data:` line, the empty line
Frame(evt, form, type) ==
    (IF evt = "" THEN <<>> ELSE <<EventLine(evt)>>)
        \o <<DataLine(form, type), BlankLine>>

Payloads ==
    {<<"object", "session.status">>, <<"object", "">>, <<"garbage", "">>,
     <<"empty", "">>}

Frames == {Frame(evt, p[1], p[2]) : evt \in {"", "session.status"},
                                    p \in Payloads}

RECURSIVE Streams(_)
Streams(n) ==
    IF n = 0 THEN {<<>>}
    ELSE LET shorter == Streams(n - 1)
         IN  shorter \cup {s \o f : s \in shorter, f \in Frames}

ParseInit ==
    /\ InitBase
    /\ RunInit
    /\ ServerInit
    /\ \E text \in Streams(MaxFrames) : lines = [text |-> text, read |-> 0]
    /\ currentEvent = NoEvent
    /\ yielded = <<>>
    /\ beads = [b \in Beads |-> "closed"]
    /\ pc = "single"
    /\ running = TRUE
    /\ opts = FixedOpts("headless")
    /\ cur = [Turn(1, "planner", buildPlannerReviewPrompt(<<>>), "wait")
                EXCEPT !.resolved = FALSE]
    /\ now = 0
    /\ lastOutputTime = 0
    /\ lastEvent = 0

\* subscribeEvents reads the next line; an event it yields is handed to
\* handleEvent by the for-await loop of start() before the next line is read
ParseLine ==
    /\ running /\ sub = "open"
    /\ lines.read < Len(lines.text)
    /\ LET r == subscribeEvents(currentEvent, lines.text[lines.read + 1])
       IN  /\ currentEvent' = r.ce
           /\ yielded' = yielded \o r.out
           /\ lines' = [lines EXCEPT !.read = @ + 1]
           /\ IF r.out # <<>>
              THEN /\ hasReceivedAny' = TRUE
                   /\ handleEvent(kindOf(r.out[1]))
              ELSE UNCHANGED <<hasReceivedAny, lastOutputTime, cur,
                               turnResolve>>
    /\ UNCHANGED <<trackerVars, inputVars, remoteVars, running, loopVars, now,
                   turnStartTime, nextBeat, lastEvent, histVars, daemonVars,
                   procVars, validation, sub>>

SpecParse == ParseInit /\ [][ParseLine]_vars

(***************************************************************************)
(* SpecStream: the event subscription of start() during one turn of        *)
(* executeTurnHeadless.  sub is "open" while the for-await loop reads the   *)
(* stream, "backoff" from the catch of start() until it calls start()      *)
(* again, "ended" once start() has returned without doing so.              *)
(***************************************************************************)
\* the subscription fails (the fetch is refused, the connection breaks, a
\* handler throws): catch (err), then await sleep(2000); what the
\* connection still held is lost
StreamError ==
    /\ running /\ sub = "open"
    /\ sub' = "backoff"
    /\ stream' = 0
    /\ UNCHANGED <<inflight, lastMsg, curOut, aborts, trackerVars, inputVars,
                   displayVars, loopVars, clockVars, histVars, daemonVars,
                   procVars, validation, hasReceivedAny, parseVars, cur>>

\* the server ends the connection: reader.read() reports done, the generator
\* of subscribeEvents returns, the for-await loop and start() with it
StreamEnd ==
    /\ running /\ sub = "open"
    /\ sub' = "ended"
    /\ stream' = 0
    /\ UNCHANGED <<inflight, lastMsg, curOut, aborts, trackerVars, inputVars,
                   displayVars, loopVars, clockVars, histVars, daemonVars,
                   procVars, validation, hasReceivedAny, parseVars, cur>>

\* after the backoff: if (running) start()
Resubscribe ==
    /\ running /\ sub = "backoff"
    /\ sub' = "open"
    /\ hasReceivedAny' = FALSE
    /\ UNCHANGED <<trackerVars, inputVars, remoteVars, displayVars, loopVars,
                   clockVars, histVars, daemonVars, procVars, validation,
                   parseVars, cur>>

\* an event the session emits while nobody is subscribed reaches nobody
EventMissed ==
    /\ sub # "open" /\ stream > 0
    /\ stream' = stream - 1
    /\ UNCHANGED <<inflight, lastMsg, curOut, aborts, trackerVars, inputVars,
                   displayVars, loopVars, clockVars, histVars, daemonVars,
                   auxVars, cur>>

StreamInit ==
    /\ InitCommon
    /\ beads = [b \in Beads |-> "closed"]
    /\ pc = "single"
    /\ running = TRUE
    /\ opts = FixedOpts("headless")
    /\ cur = Turn(1, "planner", buildPlannerReviewPrompt(<<>>), "submit")
    /\ now = 0
    /\ lastOutputTime = 0
    /\ lastEvent = 0

StreamNext ==
    \/ \E said \in BOOLEAN : RemoteFinish(said)
    \/ RemoteFail
    \/ RemoteAbort
    \/ AbortLost
    \/ Deliver
    \/ \E ev \in EventKinds \ {"idle"} : StreamEvent(ev)
    \/ \E ok \in BOOLEAN : TurnSubmit(ok)
    \/ \E pok \in BOOLEAN : TurnProbe(pok)
    \/ \E ms \in SilenceSamples : Heartbeat(ms)
    \/ StreamError
    \/ StreamEnd
    \/ Resubscribe
    \/ EventMissed

SpecStream == StreamInit /\ [][StreamNext]_vars

(***************************************************************************)
(* SpecModel: the headless supervisor under the values of --planner that   *)
(* parseArgs accepts: the default, a model without provider, and the empty *)
(* text of `--planner=`.                                                   *)
(***************************************************************************)
ModelInit ==
    /\ InitCommon
    /\ beads = [b \in Beads |-> IF b = 1 THEN "ready" ELSE "blocked"]
    /\ pc = "setup"
    /\ running = FALSE
    /\ cur = NoTurn
    /\ now = 0
    /\ lastOutputTime = 0
    /\ lastEvent = 0
    /\ opts \in [goal : BOOLEAN, maxCycles : {MaxCycles}, tty : {TRUE},
                 mode : {"headless"}, same : {FALSE},
                 planner : ModelSpecs \ {DEFAULT_EXECUTOR},
                 executor : {DEFAULT_EXECUTOR}, attach : {FALSE}]

SpecModel == ModelInit /\ [][Next]_vars

(***************************************************************************)
(* SpecExit: runHeadlessMode from its start to its end.  pc = "start"      *)
(* before the server is attached to or started, pc = "exited" once the     *)
(* finally block has run or process.exit(1) was called.  procs gives the   *)
(* server this run spawns (child) and a server of somebody else that       *)
(* listens on the port (other): "none", "alive" or "killed".               *)
(***************************************************************************)
NoServerCtx == [serverProcess |-> <<>>, alreadyRunning |-> FALSE]

\* checkOpencodeHealth: a server answers on the port
checkOpencodeHealth(p) == p.other = "alive" \/ p.child = "alive"

\* serverProcess.kill(): the signal goes to the process the handle names
kill(p, handle) == [p EXCEPT ![handle] = IF @ = "alive" THEN "killed" ELSE @]

\* attachOpencodeServer: the context, or <<>> when it throws
attachOpencodeServer(p) ==
    IF ~checkOpencodeHealth(p) THEN <<>>
    ELSE <<[serverProcess |-> <<>>, alreadyRunning |-> TRUE]>>

\* startOpencodeServer: the context (<<>> when it throws) and the processes
\* it leaves; up: the spawned server becomes healthy within the timeout
startOpencodeServer(p, up) ==
    IF checkOpencodeHealth(p)
    THEN [ctx |-> <<[serverProcess |-> <<>>, alreadyRunning |-> TRUE]>>,
          procs |-> p]
    ELSE IF up
    THEN [ctx |-> <<[serverProcess |-> <<"child">>, alreadyRunning |-> FALSE]>>,
          procs |-> [p EXCEPT !.child = "alive"]]
    ELSE [ctx |-> <<>>, procs |-> kill([p EXCEPT !.child = "alive"], "child")]

\* runHeadlessMode up to inputQueue.start()
HeadlessStart(up) ==
    /\ pc = "start"
    /\ LET r == IF opts.attach
                THEN [ctx |-> attachOpencodeServer(procs), procs |-> procs]
                ELSE startOpencodeServer(procs, up)
       IN  /\ procs' = r.procs
           /\ IF r.ctx = <<>>
              THEN /\ pc' = "exited"
                   /\ UNCHANGED serverCtx
              ELSE /\ pc' = "setup"
                   /\ serverCtx' = r.ctx[1]
    /\ UNCHANGED <<trackerVars, inputVars, remoteVars, displayVars, cycle, opts,
                   hasBeads, nsent, quitTaken, item, doneItem, clockVars,
                   histVars, daemonVars, parentAlive, parentPid, validation,
                   streamVars, parseVars, cur>>

killsNothing(ctx) == FALSE

\* if (serverCtx.serverProcess)
killsServer(ctx) == ctx.serverProcess # <<>>

\* the finally block of runHeadlessMode: supervisorLoopHeadless has returned
\* or has thrown
HeadlessFinally ==
    /\ pc \in {"done", "crashed"}
    /\ closed' = TRUE
    /\ procs' = IF killsServer(serverCtx)
                THEN kill(procs, serverCtx.serverProcess[1])
                ELSE procs
    /\ pc' = "exited"
    \* no call of executeTurnHeadless is left on the stack
    /\ cur' = NoTurn
    /\ UNCHANGED <<trackerVars, queue, typed, remoteVars, displayVars, cycle,
                   opts, hasBeads, nsent, quitTaken, item, doneItem, clockVars,
                   histVars, daemonVars, parentAlive, parentPid, serverCtx,
                   validation, streamVars, parseVars>>

ExitInit ==
    /\ InitBase
    /\ RunInit
    /\ lines = [text |-> <<>>, read |-> 0]
    /\ currentEvent = NoEvent
    /\ yielded = <<>>
    /\ serverCtx = NoServerCtx
    /\ procs \in [child : {"none"}, other : {"none", "alive"}]
    /\ beads = [b \in Beads |-> IF b = 1 THEN "ready" ELSE "blocked"]
    /\ pc = "start"
    /\ running = FALSE
    /\ cur = NoTurn
    /\ now = 0
    /\ lastOutputTime = 0
    /\ lastEvent = 0
    /\ opts \in [goal : BOOLEAN, maxCycles : {MaxCycles}, tty : {TRUE},
                 mode : {"headless"}, same : {FALSE},
                 planner : {DEFAULT_PLANNER}, executor : {DEFAULT_EXECUTOR},
                 attach : BOOLEAN]

ExitNext ==
    \/ Next
    \/ \E up \in BOOLEAN : HeadlessStart(up)
    \/ HeadlessFinally

SpecExit == ExitInit /\ [][ExitNext]_vars

(***************************************************************************)
(* SpecStop: the stream client (createEventDisplay, or in daemon mode      *)
(* createDaemonEventMonitor) during one turn, with stop() called by its    *)
(* owner at any moment: while the stream is read, during the backoff of    *)
(* start(), before or after the turn registered its waiter.                *)
(***************************************************************************)
\* eventDisplay.stop() / monitor.stop()
StopClient ==
    /\ running
    /\ stopDisplay
    /\ UNCHANGED <<trackerVars, inputVars, remoteVars, loopVars, clockVars,
                   histVars, daemonVars, auxVars>>

StopInit ==
    /\ InitCommon
    /\ beads = [b \in Beads |-> "closed"]
    /\ pc = "single"
    /\ running = TRUE
    /\ \E mode \in {"headless", "daemon"} : opts = FixedOpts(mode)
    /\ cur = Turn(1, "planner", buildPlannerReviewPrompt(<<>>), "submit")
    /\ now = 0
    /\ lastOutputTime = 0
    /\ lastEvent = 0

StopNext ==
    \/ StreamNext
    \/ UserEvent
    \/ \E ms \in SilenceSamples : DaemonSilence(ms)
    \/ StopClient

SpecStop == StopInit /\ [][StopNext]_vars
(***************************************************************************)
(* Properties.                                                             *)
(***************************************************************************)
\* this step calls executeTurnHeadless: a new turn is started
TurnStarted == cur'.tpc = "submit" /\ cur' # cur

\* this step is the poll interval of the waiting turn draining the queue
PollStep ==
    /\ cur.tpc = "wait"
    /\ hasMessages(queue)
    /\ typed' = typed
    /\ queue' # queue

\* C1: at most one prompt submitted by the supervisor is in flight in the
\* session at any instant.
C1_OneTurnInFlight == Len(inflight) <= 1

\* C2: once a quit has been taken out of the queue, by whichever consumer and
\* whatever came with it in the drained batch, no further turn is started.
C2_NoTurnAfterQuit == [][quitTaken' => ~TurnStarted]_vars

\* how a result reads: by its flags and its status
IsAborted(r) == r.aborted
IsQuit(r) == r.quit
IsErrored(r) == r.status = "error"
IsCompleted(r) == r.status \in {"idle", "stopped"}
OutcomesOf(r) ==
    {o \in {"completed", "aborted", "quit", "errored"} :
        \/ o = "completed" /\ IsCompleted(r)
        \/ o = "aborted" /\ IsAborted(r)
        \/ o = "quit" /\ IsQuit(r)
        \/ o = "errored" /\ IsErrored(r)}

\* a turn's result once fixed is never changed by a later signal
ResolvedOnce == cur.tpc = "returned" => cur' = cur

\* C3 as stated: a turn is resolved once, the first signal fixing the result,
\* and the result is exactly one of completed, aborted, quit, errored: never
\* both aborted and quit, and an errored turn is none of the other three.
C3_ExactlyOneOutcome ==
    [][/\ ResolvedOnce
       /\ cur'.tpc = "returned" => Cardinality(OutcomesOf(cur'.result)) = 1]_vars

\* C3 amended: a turn is resolved once, the first signal fixing the result;
\* its status is exactly one of completed (the stream's status), aborted,
\* quit, error; aborted and quit are never both set; an errored turn is
\* reported with status error and the aborted flag set, never as completed
\* or quit.
C3_OutcomeOnce ==
    [][/\ ResolvedOnce
       /\ cur'.tpc = "returned" =>
            cur'.result \in {Result("idle", FALSE, FALSE),
                             Result("stopped", FALSE, FALSE),
                             Result("aborted", TRUE, FALSE),
                             Result("quit", FALSE, TRUE),
                             Result("error", TRUE, FALSE)}]_vars

\* the poll resolved the turn with quit, and the stream's completion came
\* after it
C3_Witness ==
    /\ cur.tpc = "returned"
    /\ cur.result = Result("quit", FALSE, TRUE)
    /\ turnResolve = 0
    /\ nsent = 1

\* how long the stream has been silent in the waiting turn
StreamSilence ==
    now - (IF lastEvent > turnStartTime THEN lastEvent ELSE turnStartTime)

\* this step is the 15 s interval of the waiting turn
BeatStep == cur.tpc = "wait" /\ nextBeat' # nextBeat

\* C4: a turn never waits through a stream silence of the hard-abort window
\* plus one polling interval, and the interval that finds the silence at or
\* past the window resolves the turn with aborted = true and issues a remote
\* abort (both in executeTurnHeadless and in executeTurnDaemon).
C4_SilenceAbort ==
    [][/\ cur'.tpc = "wait" =>
            StreamSilence' < SILENCE_ABORT + HEARTBEAT_INTERVAL
       /\ BeatStep /\ StreamSilence >= SILENCE_ABORT =>
            /\ cur'.tpc = "returned"
            /\ cur'.result = Result("aborted", TRUE, FALSE)
            /\ cur'.abortCalls = cur.abortCalls + 1
            /\ aborts' = aborts + 1]_vars

\* the stream spoke once during the wait, the silence then outlasted the
\* window, and the interval aborted the turn
C4_Witness ==
    /\ cur.tpc = "returned"
    /\ cur.result = Result("aborted", TRUE, FALSE)
    /\ typed = 0
    /\ lastEvent > turnStartTime
    /\ now - lastEvent > SILENCE_ABORT
    /\ aborts = 1

HasAbort(items) == \E i \in 1..Len(items) : items[i].type = "abort"

\* C5: the poll of a waiting turn that finds /quit or /abort entered issues
\* a remote abort call and resolves the turn at once, with status quit when
\* /quit was entered (the loop then exits) and aborted when only /abort was.
C5_PollCancels ==
    [][PollStep /\ (HasQuit(queue) \/ HasAbort(queue)) =>
            /\ cur'.tpc = "returned"
            /\ cur'.abortCalls = cur.abortCalls + 1
            /\ aborts' = aborts + 1
            /\ cur'.result = IF HasQuit(queue) THEN Result("quit", FALSE, TRUE)
                             ELSE Result("aborted", TRUE, FALSE)]_vars

\* this step makes a selector call whose tracker commands have an outcome in Q
SelectorStep(Q) ==
    \/ \E q \in Q, qo \in {"json", "fail"} : LoopTop(q, qo)
    \/ \E mok \in BOOLEAN, q \in Q : PlannerCheck(mok, q)

\* the outcomes in which every tracker command of the selector succeeds
SelectOk ==
    {q \in LoopOutcomes : q.ip = "json" /\ q.rd = "json" /\ q.up = "json"}

\* a planner turn started for a work item finds it in_progress, and no item
\* is claimed while another is in_progress
ClaimedBeforeTurn ==
    /\ TurnStarted /\ cur'.site = "planner" /\ cur'.prompt.kind = "bead" =>
            /\ cur'.prompt.ref[1] \in Beads
            /\ beads'[cur'.prompt.ref[1]] = "in_progress"
    /\ \A c \in Beads :
            beads[c] # "in_progress" /\ beads'[c] = "in_progress" =>
                \A b \in Beads : beads[b] # "in_progress"

SelectsByPriority(e) ==
    LET inProgress == WithStatus(e.before, {"in_progress"})
        ready == WithStatus(e.before, {"ready"})
    IN  /\ inProgress # <<>> =>
            /\ e.res.prompt.kind = "bead"
            /\ \E k \in 1..Len(inProgress) : e.res.prompt.ref = <<inProgress[k]>>
            /\ e.res.claim = <<>>
            /\ e.res.beads = e.before
        /\ inProgress = <<>> /\ ready # <<>> =>
            /\ e.res.claim = <<ready[1]>>
            /\ e.res.prompt = buildPlannerBeadPrompt(ready[1])
            /\ e.q.up # "fail" =>
                    e.res.beads = [e.before EXCEPT ![ready[1]] = "in_progress"]
        /\ e.res.prompt = NoPrompt <=> (inProgress = <<>> /\ ready = <<>>)

C8_IdempotentClaim ==
    [][/\ TurnStarted /\ cur'.site = "planner" /\ cur'.prompt.kind = "bead"
       /\ cur'.prompt.ref[1] \in Beads
       /\ beads[cur'.prompt.ref[1]] = "in_progress"
       => /\ beads' = beads
          /\ \A i \in 1..Len(inflight) : inflight[i].item # cur'.prompt]_vars

\* C9: when the loop has found the planner's turn to end with TASK_DONE, the
\* cycle counter is reset to zero, and the next planner turn it starts is the
\* initial prompt for a work item of the tracker: not a review prompt, not
\* what was just declared done, not the command-line goal again.
C9_NextItemAfterDone ==
    [][/\ doneItem = <<>> /\ doneItem' # <<>> => cycle' = 0
       /\ TurnStarted /\ cur'.site = "planner" /\ doneItem # <<>> =>
            /\ cur'.prompt.kind = "bead"
            /\ cur'.prompt # doneItem[1]]_vars

\* C10: after a planner turn that was neither aborted nor quit, and whose
\* transcript the loop could read, the loop goes back to work selection if
\* and only if the answer the planner gave in that turn contains the
\* sentinel, and otherwise starts the executor turn.
C10_SentinelDecides ==
    [][(\E q \in LoopOutcomes : PlannerCheck(TRUE, q)) =>
            /\ pc' \in {"loop", "done"} <=> curOut = "sentinel"
            /\ (TurnStarted /\ cur'.site = "executor") <=> curOut # "sentinel"]_vars

\* an executor turn (of the loop, or the one after the goal discussion) has
\* returned to the loop with a result that is not quit
ExecutorReturns ==
    /\ pc = "turn" /\ cur.tpc = "returned"
    /\ cur.site \in {"executor", "postgo"}
    /\ ~cur.result.quit

\* C11: after an executor turn that did not resolve with quit, whatever its
\* result, the loop goes on to its next iteration, and the next turn it starts
\* is the planner's review turn.
C11_ReviewAfterExecutor ==
    [][/\ ExecutorReturns => pc' = "loop"
       /\ TurnStarted /\ lastTurn.site \in {"executor", "postgo"} =>
            /\ cur'.site = "planner"
            /\ cur'.prompt.kind = "review"]_vars

\* the review turn started after an executor turn that the probe found in
\* error
C11_Witness ==
    /\ cur.site = "planner" /\ cur.prompt.kind = "review"
    /\ cur.tpc = "submit"
    /\ lastTurn.site = "executor"
    /\ lastTurn.result = probeResult

\* /go is received in the goal discussion: the drain of
\* goalDiscussionHeadless takes it, or the daemon's monitor hands the user's
\* message over while goalDiscussionDaemon runs
GoReceived ==
    \/ DiscussStep /\ discussItems(queue, <<>>).go
    \/ UserEvent /\ InDiscussion /\ Head(userEvents) = TuiText("/go")

\* C12: when /go is received in the goal discussion, the finalize turn is
\* started, it is the only one of the run, and the turn started next after it
\* is an executor turn.
C12_ExecutorAfterGo ==
    [][/\ GoReceived => TurnStarted /\ cur'.prompt.kind = "finalize"
       /\ TurnStarted /\ cur'.prompt.kind = "finalize" =>
            /\ cur.site # "finalize"
            /\ lastTurn.site \in {"discovery", "discuss"}
       /\ TurnStarted /\ cur.site = "finalize" =>
            cur'.prompt.kind = "executor"
       /\ pc = "turn" /\ cur.site = "finalize" /\ cur.tpc = "returned" =>
            TurnStarted \/ (cur.result.quit /\ pc' = "done")]_vars

\* what the loop finds in the queue when it comes back from waitForInput()
Answer == loopItems(queue, NoItems)

\* C13: when the headless loop comes back from waiting for the user with a
\* free-text message, it starts a planner turn whose prompt carries the text
\* of that message; with a quit it ends without starting any turn.
C13_MessageIsGoal ==
    [][pc = "loop" /\ waited /\ hasMessages(queue) =>
            IF Answer.quit
            THEN pc' = "done" /\ ~TurnStarted
            ELSE Answer.userFeedback # <<>> =>
                    /\ TurnStarted /\ cur'.site = "planner"
                    /\ cur'.prompt.fb = Answer.userFeedback]_vars

\* C14: with no work available the loop blocks on the interrupt channel:
\* waitForInput() sleeps between two checks and ends only with a command
\* queued, whatever the state of the channel, so the loop never spins.
C14_BlocksWithoutSpin ==
    [][pc = "awaitInput" /\ pc' # "awaitInput" => hasMessages(queue)]_vars

\* this step starts a planner turn of the main loop
PlannerStarted == TurnStarted /\ cur'.site = "planner"

\* C15 as stated: no more than --max-cycles cycles are begun in one run: no
\* planner turn of the main loop is started once that many have been.
C15_CyclesBounded ==
    [][PlannerStarted => ncycles < opts.maxCycles]_vars

\* C15 amended: the cycle counter never exceeds --max-cycles: a planner turn
\* of the main loop is started only with the counter below it and counts one
\* cycle, and the loop ends when it finds the counter at the bound; the
\* counter restarts from zero at each sentinel completion, so that the run
\* as a whole may begin more cycles than the bound.
C15_CounterBounded ==
    [][/\ cycle' <= opts.maxCycles
       /\ PlannerStarted => cycle < opts.maxCycles /\ cycle' = cycle + 1
       /\ pc = "loop" /\ cycle >= opts.maxCycles => pc' = "done"
       /\ cycle' < cycle => cycle' = 0 /\ plannerSaidDone(TRUE, lastMsg)]_vars

\* the loop has ended on the bound: the last cycle's planner turn was
\* aborted and no quit was taken
C15_Witness ==
    /\ pc = "done"
    /\ cycle = opts.maxCycles
    /\ ~quitTaken
    /\ lastTurn.site = "planner" /\ lastTurn.result.aborted

\* the messages of q are in the order they arrived in
InArrivalOrder(q) ==
    \A i, j \in 1..Len(q) :
        q[i].type = "message" /\ q[j].type = "message" /\ i < j =>
            \E m, n \in 1..Len(Arrival) :
                m < n /\ q[i].text = Arrival[m] /\ q[j].text = Arrival[n]

\* C16: the queue is a FIFO: the messages that arrived during a turn and
\* were requeued by its polls are, when the turn has returned and the cycle
\* boundary is about to drain them, in the order they arrived in.
C16_RequeuedInOrder == cur.tpc = "returned" => InArrivalOrder(queue)

\* the headless main loop is running and has sent a prompt
InMainLoop ==
    /\ opts.mode = "headless"
    /\ nsent > 0
    /\ \/ pc \in {"loop", "awaitInput", "plannerCheck"}
       \/ pc = "turn" /\ cur.site \in {"planner", "executor", "postgo"}

\* this step takes the i-th item out of the queue for good
TakenOut(i) == \A j \in 1..Len(queue') : queue'[j] # queue[i]

\* C17: a free-text message entered while the headless main loop runs is
\* not dropped: the step that takes it out of the queue for good either ends
\* the loop (or the turn, with quit) or starts a planner turn whose prompt carries its text.
C17_MessagesDelivered ==
    [][\A i \in 1..Len(queue) :
          /\ InMainLoop
          /\ queue[i].type = "message"
          /\ TakenOut(i)
          /\ pc' \notin {"done", "crashed"} /\ ~cur'.result.quit
          => /\ TurnStarted /\ cur'.site = "planner"
             /\ cur'.prompt.fb = <<queue[i].text>>]_vars

\* the cycle boundary of the headless loop processes a /skip while a work
\* item is current
SkipProcessed ==
    /\ pc = "loop" /\ opts.mode = "headless"
    /\ cycle > 0 /\ withinCycles(cycle, opts.maxCycles)
    /\ Answer.shouldSkip /\ ~Answer.quit

\* C18: after a /skip processed at a cycle boundary, the planner turn the
\* loop starts is not a review of the current work item but the initial
\* prompt for another one, with the cycle counter started anew.
C18_SkipSelectsAnew ==
    [][SkipProcessed /\ TurnStarted =>
            /\ cur'.prompt.kind = "bead"
            /\ cur'.prompt # item
            /\ cycle' = 1]_vars

\* the number of user prompts the session has not finished
UserPrompts(fl) == Cardinality({i \in 1..Len(fl) : fl[i].role = "user"})

\* the number of undelivered events of messages typed in the TUI
TuiEvents(ue) == Cardinality({i \in 1..Len(ue) : ue[i].kind = "tui"})

\* C19: in daemon mode, from the moment the monitor has announced a user
\* message until the session has finished the exchange it triggered, the
\* daemon starts no turn of its own, in the main loop and in the goal
\* discussion (the exchange triggered by /go included).
C19_PausedDuringUserExchange ==
    [][TurnStarted => UserPrompts(inflight') <= TuiEvents(userEvents')]_vars

\* C20: in daemon mode the pause for the user's turn always ends: the daemon
\* that waits at the top of its loop for the user's exchange eventually
\* resumes its cycle, whenever the exchange's completion event arrived.
C20_PauseEnds == (pc = "userWait") ~> (pc # "userWait")

\* C21: once the daemon's parent process is no longer alive the daemon
\* terminates, in whatever state its supervisor loop is.
C21_OrphanExits == (~parentAlive) ~> Terminated

\* C22: a model rejected by the provider during validateModels aborts the
\* run before any work item is claimed and before any turn is sent; one
\* model used for both roles is probed once.
C22_RejectionIsFatal ==
    /\ validation.rejected =>
          /\ pc = "crashed"
          /\ nsent = 0 /\ cur = NoTurn
          /\ \A b \in Beads : beads[b] # "in_progress"
    /\ opts.same => validation.probes <= 1

\* the executor's model is rejected after the planner's was verified
C22_Witness ==
    /\ validation.rejected /\ validation.probes = 2
    /\ pc = "crashed"

\* C23: executeTurnHeadless and executeTurnDaemon never throw: a turn that
\* was started (its prompt being submitted, probed or awaited) ends with an
\* outcome value, whatever fails, and the supervisor loop keeps running.
C23_TurnNeverThrows ==
    [][cur.tpc \in {"submit", "probe", "wait"} => pc' # "crashed"]_vars

\* C24: once a turn's outcome is resolved, the stream-completion waiter
\* registered for that turn is no longer registered.
C24_WaiterCancelled ==
    (cur.id # 0 /\ cur.tpc = "returned") => turnResolve # cur.id

\* this step is the heartbeat of executeTurnHeadless aborting the turn
SilenceAbortStep ==
    /\ opts.mode = "headless"
    /\ BeatStep
    /\ cur'.tpc = "returned"

\* C25: in executeTurnHeadless every automatic silence abort of a turn is
\* preceded, within the same turn, by the silence warning, and the warning
\* itself never resolves the turn.
C25_WarnedBeforeAbort ==
    [][/\ SilenceAbortStep => cur.warned
       /\ (~cur.warned /\ cur'.warned) => cur'.tpc = "wait"]_vars

\* this step is the heartbeat of executeTurnHeadless, firing on a waiting
\* turn
HeartbeatStep == opts.mode = "headless" /\ BeatStep

\* the silence the heartbeat computes
CodeSilence == silenceMs(now, lastOutputTime, turnStartTime)

\* C26: both silence deadlines of a turn are reset by new stream activity:
\* the heartbeat that first finds a warn window of silence after output
\* seen in this turn issues the warning (again, if it was issued before),
\* and the automatic abort comes only after a full abort window without
\* any event of the stream.
C26_DeadlinesReset ==
    [][/\ (/\ HeartbeatStep
           /\ lastOutputTime > turnStartTime
           /\ CodeSilence >= SILENCE_WARN
           /\ CodeSilence < SILENCE_WARN + HEARTBEAT_INTERVAL)
          => (~cur.warned /\ cur'.warned)
       /\ (HeartbeatStep /\ cur'.tpc = "returned")
          => StreamSilence >= SILENCE_ABORT]_vars

\* the lines of the frame that the line about to be read belongs to, that
\* line included
RECURSIVE FrameStart(_, _)
FrameStart(text, i) ==
    IF i = 1 \/ text[i - 1].k = "blank" THEN i ELSE FrameStart(text, i - 1)

FrameRead ==
    LET i == lines.read + 1
    IN  SubSeq(lines.text, FrameStart(lines.text, i), i)

\* the frame holds a data line that JSON.parse rejects
Malformed(frame) ==
    \E i \in 1..Len(frame) : frame[i].k = "data" /\ parseThrows(frame[i].form)

\* the event of a well-formed frame: the type of its `event:` line, else of
\* its payload, with the payload's properties
EventOf(frame) ==
    LET evts == {i \in 1..Len(frame) : frame[i].k = "event"}
        data == CHOOSE i \in 1..Len(frame) : frame[i].k = "data"
    IN  Event(IF evts = {} THEN frame[data].type
              ELSE frame[CHOOSE i \in evts : TRUE].type, "status")

\* this step reads the empty line that ends a frame
FrameEnds ==
    /\ lines.read < Len(lines.text)
    /\ lines'.read = lines.read + 1
    /\ lines.text[lines.read + 1].k = "blank"

\* C28: for every sequence of frames, a malformed frame is dropped (it
\* yields no event and handling changes nothing), and every well-formed
\* frame, also after a malformed one, yields its event and is processed: a
\* status frame resolves the waiting turn.
C28_MalformedDropped ==
    [][FrameEnds =>
         IF Malformed(FrameRead)
         THEN yielded' = yielded /\ cur' = cur /\ turnResolve' = turnResolve
         ELSE /\ yielded' = Append(yielded, EventOf(FrameRead))
              /\ kindOf(EventOf(FrameRead)) = "idle" => turnResolve' = 0]_vars

\* C27: whenever the event subscription stops while the stream client is
\* running, by a transport error or by the connection ending, the client
\* subscribes again after its backoff: it is never left running with
\* start() returned and no subscription to come.
C27_Resubscribes == running => sub \in {"open", "backoff"}

\* the variables of createEventDisplay / createDaemonEventMonitor
ClientState == <<running, sub, turnResolve, lastOutputTime, hasReceivedAny>>

\* C29: an event of a type that is not recognized is dropped: handling it
\* leaves the pending turn waiter and the display state unchanged, never
\* stops the stream or resolves a turn, and is counted (the stream client
\* keeps a record of it).
C29_UnknownDropped ==
    [][StreamEvent("other") =>
         /\ turnResolve' = turnResolve /\ cur' = cur
         /\ lastOutputTime' = lastOutputTime
         /\ running' = running /\ sub' = sub
         /\ ClientState' # ClientState]_vars

\* this step hands an event of the stream to handleEvent
EventReceived == Deliver \/ \E ev \in EventKinds \ {"idle"} : StreamEvent(ev)

\* C30: the shared last-activity timestamp is updated for each event received
\* from the stream, whatever the event's kind.
C30_ActivityPerEvent == [][EventReceived => lastOutputTime' = now]_vars

\* C31: every prompt the supervisor submits carries a model, and it is the
\* model of the prompt's role: the planner's for a planner-role turn, the
\* executor's for an executor turn, whatever --planner and --executor are.
C31_ModelBound ==
    \A i \in 1..Len(inflight) :
        inflight[i].id # 0 =>
            /\ inflight[i].model # <<>>
            /\ inflight[i].model =
                   parseModelSpec(IF inflight[i].role = "executor"
                                  THEN opts.executor ELSE opts.planner)

\* C32: a turn is aborted for silence only when the abort window has passed
\* since the turn started and since the last output seen within the turn;
\* output (or silence) from before the turn started does not count.
C32_SilenceWithinTurn ==
    [][(BeatStep /\ cur'.tpc = "returned")
          => /\ now - turnStartTime >= SILENCE_ABORT
             /\ lastOutputTime > turnStartTime
                   => now - lastOutputTime >= SILENCE_ABORT]_vars

\* C33: no completion signal is lost: while a turn waits whose prompt the
\* session has finished without an error, the status event that resolves
\* the turn is still to be delivered.
C33_NoSignalLost ==
    (/\ cur.tpc = "wait"
     /\ curOut \in {"plain", "sentinel"}
     /\ inflight = <<>>) => stream > 0

\* this step is the stream's status event resolving the waiting turn
StreamResolves ==
    /\ cur.tpc = "wait"
    /\ cur'.tpc = "returned"
    /\ cur'.id = cur.id
    /\ cur'.result.status = "idle"

\* C34: a turn is resolved as completed only by a status change of its own:
\* when the stream's status event resolves the waiting turn, the session is
\* no longer processing that turn's prompt.
C34_OwnStatusResolves ==
    [][StreamResolves => \A i \in 1..Len(inflight) : inflight[i].id # cur.id]_vars

\* this step starts an executor turn
ExecutorStarted == TurnStarted /\ cur'.site \in {"postgo", "executor"}

\* C35: an executor turn is started only directly after a planner-role turn
\* (initial, review or finalize) that completed: not after one that was
\* aborted, timed out, errored or ended with the stream client stopped, and
\* not after another executor turn.
C35_ExecutorAfterCompletedPlanner ==
    [][ExecutorStarted => /\ cur.site \in {"planner", "finalize"}
                          /\ cur.tpc = "returned"
                          /\ cur.result.status = "idle"
                          /\ ~cur.result.aborted]_vars

\* the planner turn that returned last was the initial turn for a work item
\* or for the goal, and it was aborted or errored
InitialTurnFailed ==
    /\ lastTurn.site = "planner"
    /\ lastTurn.prompt.kind \in {"bead", "goal"}
    /\ lastTurn.result.aborted

\* C36: when the first planner turn for a newly selected work item or goal
\* is aborted or errored, the next planner prompt is the initial prompt
\* again, not a review prompt.
C36_InitialPromptRepeated ==
    [][(PlannerStarted /\ InitialTurnFailed)
          => cur'.prompt.kind \in {"bead", "goal"}]_vars

\* this step is handleEvent taking the message.updated event of a user
\* message
UserEventStep == userEvents # <<>> /\ userEvents' = Tail(userEvents)

\* the message is one the daemon submitted
OwnPrompt(text) == text.kind # "tui"

HeadlessEnded == pc = "exited" /\ serverCtx # NoServerCtx

C38_ExitCleanup ==
    /\ HeadlessEnded =>
          /\ closed
          /\ procs.child \in {"alive", "killed"} <=> ~serverCtx.alreadyRunning
          /\ procs.child # "alive"
    /\ procs.other # "killed"
    /\ (procs.child = "killed" /\ serverCtx # NoServerCtx) => HeadlessEnded

C38_Witness ==
    /\ HeadlessEnded
    /\ procs.child = "killed"
    /\ lastTurn.site = "executor"

C38_WitnessAttached ==
    /\ HeadlessEnded
    /\ opts.attach
    /\ procs.other = "alive"
    /\ lastTurn.site = "executor"

\* C39: once stop() was called on the stream client, no event is handled
\* any more and start() does not subscribe again, also when stop() came
\* during the backoff; the waiter pending when stop() is called is released
\* at once, its turn ending with status "stopped"
EventHandled ==
    \/ Deliver
    \/ UserEvent
    \/ \E ev \in EventKinds \ {"idle"} : StreamEvent(ev)

StopCalled == running /\ ~running'

C39_StopIsFinal ==
    /\ [][~running =>
            /\ ~running'
            /\ ~EventHandled
            /\ sub' = sub
            /\ hasReceivedAny' = hasReceivedAny
            /\ lastOutputTime' = lastOutputTime]_vars
    /\ [][(StopCalled /\ turnResolve # 0) =>
            /\ turnResolve' = 0
            /\ cur'.resolved
            /\ cur'.tpc = "returned"
            /\ ~cur.resolved => cur'.result = streamResult("stopped")]_vars

C39_Witness ==
    /\ ~running
    /\ sub = "backoff"
    /\ stream > 0
    /\ cur.result.status = "stopped"
====
